---------------------------- MODULE Spec2Model ----------------------------
(***************************************************************************)
(* Event coordination core of the TransformerX dashboard.                  *)
(*                                                                         *)
(*   - the Action-State Engine of dashboard/js/neuro-llama.js: the five    *)
(*     ACTION_VERBS accumulators, driven by processor:classification-      *)
(*     updated and processor:features-extracted events and by the neural   *)
(*     guidance toggle (specification Spec);                               *)
(*   - the Signal Classifier of dashboard/js/neural-signal-processor.js:   *)
(*     startProcessor / stopProcessor / resetProcessor and the periodic    *)
(*     processorTick (specifications ProcSpec and TickSpec);               *)
(*   - the event bus and the page load that wires the modules              *)
(*     (specification PageSpec), the connection handshake of NeuroLLaMA    *)
(*     (HandshakeSpec) and the device-status monitor of bci-status.js      *)
(*     (BciSpec, and CheckSpec for its impedance checks).                  *)
(*                                                                         *)
(* Confidences are decimal fractions.  A confidence v is held as the       *)
(* integer v * Scale with Scale = 10^Digits, so that the products with 0.9 *)
(* and 0.8 are exact; a handler that multiplies is only taken from states  *)
(* whose accumulators still have the decimal places to spare.              *)
(***************************************************************************)
EXTENDS Integers, Sequences, FiniteSets, TLC

VARIABLES
    neuroLLaMA,          \* neuro-llama.js:7   [active, threshold, histories, uiState]
    ACTION_VERBS,        \* neuro-llama.js:51  action name -> accumulator
    now,                 \* Date.now(), in ms
    panelTimers,         \* pending setTimeout callbacks of updateActionStatePanel
    processorActive,     \* neural-signal-processor.js:7
    processorIntervalId, \* neural-signal-processor.js:8  (0 = undefined)
    intervals,           \* ids of the armed setInterval(processorTick) timers
    processorData,       \* neural-signal-processor.js:9
    decodedOutputHistory, \* processorData.decodedOutputHistory: the points' times
    classToMovementMap,  \* CONFIG.decoderBridge.classToMovementMap
    movementParameters,  \* processorData.movementParameters
    listeners,           \* document's listeners: event type -> handlers, in order
    delivery,            \* what the last handler's dispatchEvent calls did, in order
    page,                \* the page load: scripts, DOM targets, timers, outcomes
    handshakes,          \* the calls of checkNeuralProcessorConnection, in order
    connectionStatus,    \* neuroLLaMA.connectionStatus: [neuralConnected]
    bciStatus,           \* bci-status.js: connected, recordingTime, electrodes
    impedanceChecks,     \* the calls of runImpedanceCheck, in order
    currentDecoderData,  \* the decoder: trajectory buffer, type, accuracy, metrics
    decoderPanel,        \* the two selectors of the decoder, and history counters
    published,           \* events dispatched by the processor, per topic, and ticks run
    halted,              \* TRUE from the return of stop()/reset() to the next start()
    event,               \* the event the last handler received, if it was an event handler
    fired                \* the action the last handler passed to triggerAction, if any

vars == <<neuroLLaMA, ACTION_VERBS, now, panelTimers, processorActive,
          processorIntervalId, intervals, processorData, decodedOutputHistory,
          classToMovementMap, movementParameters, listeners, delivery, page,
          handshakes, connectionStatus, bciStatus, impedanceChecks,
          currentDecoderData, decoderPanel,
          published, halted, event, fired>>

engineVars == <<neuroLLaMA, ACTION_VERBS, now, panelTimers>>
procVars   == <<processorActive, processorIntervalId, intervals, processorData,
               decodedOutputHistory, classToMovementMap, movementParameters,
               published, halted>>
busVars    == <<listeners, delivery, page>>
linkVars   == <<handshakes, connectionStatus>>
bciVars    == <<bciStatus, impedanceChecks>>
decoderVars == <<currentDecoderData, decoderPanel>>

\* What the handlers of the engine, and those of the processor, leave alone.
notEngineVars == <<procVars, busVars>>
notProcVars   == <<engineVars, linkVars, bciVars, decoderVars, event, fired>>

---------------------------------------------------------------------------
(* Bounds of the model *)

Digits == 3             \* decimal places kept for a confidence
MaxClock == 3           \* the clock runs for MaxClock steps of ClockStep ms
MaxPublished == 2       \* processor ticks that publish features, per run of ProcSpec
MaxTicks == 3           \* processor ticks per run of TickSpec
MaxHandshakes == 2      \* handshakes started per run of HandshakeSpec
MaxRecordingTime == 3   \* update ticks of the device-status monitor per run of BciSpec
MaxChecks == 2          \* impedance checks started per run of CheckSpec
MaxInsertions == 150    \* points pushed on the trajectory in a row, BufferSpec
MaxRegenerations == 1   \* changes of the trajectory type per run of BufferSpec
MaxDemoTicks == 2       \* points added after a generation, DecoderSpec
MaxChanges == 2         \* changes of a selection or of the type per run of DecoderSpec
MaxAttentionTicks == 1   \* ticks per run of AttentionSpec

(* Program constants *)

Threshold == 75         \* neuroLLaMA.threshold = 0.75, in hundredths
ActiveLevel == 60       \* active = confidence > 0.6, in hundredths
DebounceMs == 2000      \* now - lastTriggered > 2000
PanelResetMs == 1000    \* setTimeout(..., 1000) clearing triggered
ClockStep == PanelResetMs  \* resolution of the clock: the delay of the panel timers
Epoch == 100000         \* Date.now() when the page loads (any value > DebounceMs)
UpdateInterval == 500   \* CONFIG.updateInterval, in ms
MaxHistoryPoints == 50  \* CONFIG.maxHistoryPoints
MovementGate == 65      \* the glue's gate: confidence > 0.65, in hundredths
HandshakeTimeoutMs == 2000  \* checkNeuralProcessorConnection: setTimeout(..., 2000)

Scale == 10 ^ Digits
Hundredth == Scale \div 100

\* A confidence given in hundredths, as a scaled integer.
Conf(k) == k * Hundredth

\* Keys of ACTION_VERBS in their insertion order (the order of for..in).
ActionOrder == <<"navigate", "select", "modify", "create", "delete">>
ActionNames == {ActionOrder[i] : i \in 1..Len(ActionOrder)}

\* CONFIG.classLabels: the classes of a ClassificationEvent.
ClassLabels == {"Left Hand", "Right Hand", "Feet", "Tongue", "Rest"}

\* Confidences carried by the events of the model, in hundredths.
ConfLevels == {0, 60, 90, 100}

\* The events of the timed specification: two actions compete for the trigger,
\* and the confidences lie below, on and above the trigger threshold.
TimedClasses == {"Right Hand", "Feet", "Rest"}
TimedLevels == {60, 75, 90}

NoAction == "none"
NoEvent == [type |-> "none", class |-> "", confidence |-> 0]

---------------------------------------------------------------------------
(* Arithmetic *)

Max(a, b) == IF a >= b THEN a ELSE b
Min(a, b) == IF a <= b THEN a ELSE b

\* Mutants of Boost: Math.min for Math.max; adding the signal to the accumulator.
Boost_min(current, incoming) == IF current <= incoming THEN current ELSE incoming
Boost_add(current, incoming) == current + incoming

\* Math.max(ACTION_VERBS.x.confidence, confidence)
Boost(current, incoming) == IF current >= incoming THEN current ELSE incoming

\* v * (tenths / 10), exact when v is a multiple of 10.
Times(v, tenths) == (v \div 10) * tenths

\* TRUE when every accumulator can be multiplied n times by a one-decimal factor.
Room(av, n) == \A a \in ActionNames : av[a].confidence % (10 ^ n) = 0

---------------------------------------------------------------------------
(* neuro-llama.js: updateActionStates *)

\* Mutant of ApplyDecay: no decay before the switch.
ApplyDecay_skipped(av) == av

\* "Apply decay": confidence *= 0.9 for every action.
ApplyDecay(av) ==
    [a \in ActionNames |-> [av[a] EXCEPT !.confidence = Times(@, 9)]]

\* Mutant of RestDecay: the 'Rest' case without its further decay.
RestDecay_none(av) == av

\* case 'Rest': confidence *= 0.8 for every action.
RestDecay(av) ==
    [a \in ActionNames |-> [av[a] EXCEPT !.confidence = Times(@, 8)]]

\* Mutant of RouteClass: 'Tongue' raises create where it should raise select.
RouteClass_misrouted(av, classification, confidence) ==
    CASE classification = "Left Hand" ->
            [av EXCEPT !["navigate"].confidence = Boost(@, confidence),
                       !["navigate"].direction = "backward"]
      [] classification = "Right Hand" ->
            [av EXCEPT !["navigate"].confidence = Boost(@, confidence),
                       !["navigate"].direction = "forward"]
      [] classification = "Feet" ->
            [av EXCEPT !["modify"].confidence = Boost(@, confidence),
                       !["modify"].direction = "decrease"]
      [] classification = "Tongue" ->
            [av EXCEPT !["create"].confidence = Boost(@, confidence),
                       !["modify"].confidence = Boost(@, Times(confidence, 8)),
                       !["modify"].direction = "increase"]
      [] classification = "Rest" -> RestDecay(av)
      [] OTHER -> av

\* The switch on the classification.
RouteClass(av, classification, confidence) ==
    CASE classification = "Left Hand" ->
            [av EXCEPT !["navigate"].confidence = Boost(@, confidence),
                       !["navigate"].direction = "backward"]
      [] classification = "Right Hand" ->
            [av EXCEPT !["navigate"].confidence = Boost(@, confidence),
                       !["navigate"].direction = "forward"]
      [] classification = "Feet" ->
            [av EXCEPT !["modify"].confidence = Boost(@, confidence),
                       !["modify"].direction = "decrease"]
      [] classification = "Tongue" ->
            [av EXCEPT !["select"].confidence = Boost(@, confidence),
                       !["modify"].confidence = Boost(@, Times(confidence, 8)),
                       !["modify"].direction = "increase"]
      [] classification = "Rest" -> RestDecay(av)
      [] OTHER -> av

\* Mutant of SetActive: >= for > .
SetActive_atLeast(av) ==
    [a \in ActionNames |->
        [av[a] EXCEPT !.active = (av[a].confidence >= Conf(ActiveLevel))]]

\* "Active state is set when confidence exceeds 0.6".
SetActive(av) ==
    [a \in ActionNames |->
        [av[a] EXCEPT !.active = (av[a].confidence > Conf(ActiveLevel))]]

\* Mutant of updateActionStates: boost, then decay.
updateActionStates_boostFirst(av, classification, confidence) ==
    SetActive(ApplyDecay(RouteClass(av, classification, confidence)))

updateActionStates(av, classification, confidence) ==
    SetActive(RouteClass(ApplyDecay(av), classification, confidence))

\* updateActionStatePanel: every accumulator seen with triggered set gets a
\* timer that clears the flag PanelResetMs later.
updateActionStatePanel(av, timers, t) ==
    timers \cup {[action |-> a, due |-> t + PanelResetMs] :
                    a \in {x \in ActionNames : av[x].triggered}}

---------------------------------------------------------------------------
(* neuro-llama.js: considerTriggeringAction *)

\* Mutant of ScanActions: the highest confidence, whether above threshold or not.
RECURSIVE ScanActions_anyLevel(_, _, _, _)
ScanActions_anyLevel(av, i, highestConfidence, actionToTrigger) ==
    IF i > Len(ActionOrder) THEN actionToTrigger
    ELSE LET c == av[ActionOrder[i]].confidence IN
         IF c > highestConfidence
         THEN ScanActions_anyLevel(av, i + 1, c, ActionOrder[i])
         ELSE ScanActions_anyLevel(av, i + 1, highestConfidence, actionToTrigger)

RECURSIVE ScanActions(_, _, _, _)
ScanActions(av, i, highestConfidence, actionToTrigger) ==
    IF i > Len(ActionOrder) THEN actionToTrigger
    ELSE LET c == av[ActionOrder[i]].confidence IN
         IF c > highestConfidence /\ c >= Conf(neuroLLaMA.threshold)
         THEN ScanActions(av, i + 1, c, ActionOrder[i])
         ELSE ScanActions(av, i + 1, highestConfidence, actionToTrigger)

\* The action with the highest confidence above threshold (first one on a tie).
ActionToTrigger(av) == ScanActions(av, 1, 0, NoAction)

\* now - lastTriggered > 2000, lastTriggered || 0 (0 stands for undefined).
DebounceOver(t, lastTriggered) == t - lastTriggered > DebounceMs

\* Returns the accumulators after the call and the action triggered, if any.
considerTriggeringAction(av, t) ==
    LET a == ActionToTrigger(av) IN
    IF a # NoAction /\ DebounceOver(t, av[a].lastTriggered)
    THEN [verbs |-> [av EXCEPT ![a].triggered = TRUE, ![a].lastTriggered = t],
          fired |-> a]
    ELSE [verbs |-> av, fired |-> NoAction]

\* The guard of handleNeuralClassification on the incoming confidence.
Qualifies(confidence) == confidence >= Conf(neuroLLaMA.threshold)

\* Mutant of EngineListening: the handlers without their guard.
EngineListening_always == TRUE

\* The guard of both event handlers: if (!neuroLLaMA.active) return.
EngineListening == neuroLLaMA.active

---------------------------------------------------------------------------
(* neural-signal-processor.js: the decoded-output history *)

\* initDecodedOutputChart: maxHistoryPoints points, the i-th (from 0) at
\* time -i * updateInterval.  A point is held as its time, in ms; its values
\* are random numbers that no decision depends on.
InitHistory == [i \in 1..MaxHistoryPoints |-> [time |-> -(i - 1) * UpdateInterval]]

\* "Shift time values": every point moves forward by one update interval.
ShiftTime(history) ==
    [i \in 1..Len(history) |-> [time |-> history[i].time + UpdateInterval]]

\* "Remove old points": while the first point has time > 0, shift() it.
RECURSIVE RemoveOld(_)
RemoveOld(history) ==
    IF Len(history) > 0 /\ history[1].time > 0
    THEN RemoveOld(Tail(history))
    ELSE history

\* updateDecodedOutputHistory: shift, remove, push the new point.
updateDecodedOutputHistory(history) ==
    Append(RemoveOld(ShiftTime(history)), [time |-> -UpdateInterval])

---------------------------------------------------------------------------
(* neural-signal-processor.js: movement parameters of the decoder bridge *)

\* A vector is held as x / 100^e, y / 100^e with integers x, y and the least
\* e >= 0 that allows it, so that equal vectors are equal records.
RECURSIVE Reduce(_)
Reduce(v) ==
    IF v.e > 0 /\ v.x % 100 = 0 /\ v.y % 100 = 0
    THEN Reduce([x |-> v.x \div 100, y |-> v.y \div 100, e |-> v.e - 1])
    ELSE v

Vec(x, y) == [x |-> x, y |-> y, e |-> 0]

\* movement.x *= confidence; movement.y *= confidence (k hundredths).
ScaleBy(v, k) == Reduce([x |-> v.x * k, y |-> v.y * k, e |-> v.e + 1])

Abs(n) == IF n < 0 THEN -n ELSE n

\* Math.sqrt(x * x + y * y), for the vectors of the map, which lie on an axis.
Magnitude(v) == Abs(v.x) + Abs(v.y)

\* CONFIG.decoderBridge.classToMovementMap as declared.
InitMovementMap ==
    [c \in ClassLabels |->
        CASE c = "Left Hand"  -> Vec(-1, 0)
          [] c = "Right Hand" -> Vec(1, 0)
          [] c = "Feet"       -> Vec(0, -1)
          [] c = "Tongue"     -> Vec(0, 1)
          [] OTHER            -> Vec(0, 0)]

\* processorData.movementParameters as declared: x, y and velocity 0.
NoMovement == [x |-> 0, y |-> 0, velocity |-> 0, e |-> 0]

\* updateMovementParameters: movement is the object held by the map for the
\* classification (a fresh {x: 0, y: 0} when the map has none), and the
\* scaling assigns to that object.  Returns the map and the parameters.
updateMovementParameters(map, classification, k) ==
    LET mapped   == classification \in DOMAIN map
        movement == ScaleBy(IF mapped THEN map[classification] ELSE Vec(0, 0), k)
    IN  [map |-> IF mapped THEN [map EXCEPT ![classification] = movement] ELSE map,
         parameters |-> [x |-> movement.x, y |-> movement.y,
                         velocity |-> Magnitude(movement), e |-> movement.e]]

---------------------------------------------------------------------------
(* The event bus: document.addEventListener / document.dispatchEvent *)

\* CONFIG.decoderBridge.enabled
DecoderBridgeEnabled == TRUE

CLASSIFICATION_UPDATED == "processor:classification-updated"
FEATURES_EXTRACTED     == "processor:features-extracted"

\* The event types the modules subscribe to or publish.
Topics ==
    {CLASSIFICATION_UPDATED, FEATURES_EXTRACTED, "processor:decoder-ready",
     "processor:ready", "processor:connection-response", "processor:bci-status",
     "processor:connect-llama", "decoder:ready", "decoder:movement-request",
     "neuro-llama:ready", "neuro-llama:connection-request", "neuro-llama:activation",
     "neuro-llama:features-available", "bci:status-updated"}

NoListeners == [t \in Topics |-> << >>]

\* The detail of an event, as far as a subscriber of the model reads it.
Detail(class, k, direction) ==
    [class |-> class, confidence |-> k, direction |-> direction]

NoDetail == Detail("", 0, "")

addEventListener(ls, type, handler) == [ls EXCEPT ![type] = Append(@, handler)]

\* neural-signal-processor.js: initDecoderBridge and setupComponentIntegration.
setupComponentIntegration(ls) ==
    LET l1 == addEventListener(ls, "decoder:ready", "handleDecoderReady")
        l2 == addEventListener(l1, "neuro-llama:ready", "handleLLaMAReady")
        l3 == addEventListener(l2, "neuro-llama:connection-request",
                               "handleLLaMAConnectionRequest")
        l4 == addEventListener(l3, "neuro-llama:activation", "handleLLaMAActivation")
    IN  addEventListener(l4, "decoder:ready", "handleDecoderReady")

\* neuro-llama.js: initNeuralIntegration.
initNeuralIntegration(ls) ==
    addEventListener(addEventListener(ls, FEATURES_EXTRACTED, "handleNeuralFeatures"),
                     CLASSIFICATION_UPDATED, "handleNeuralClassification")

\* The decoder: initNeuralProcessorIntegration.
initNeuralProcessorIntegration(ls) ==
    LET l1 == addEventListener(ls, "processor:decoder-ready", "handleProcessorReady")
        l2 == addEventListener(l1, FEATURES_EXTRACTED, "handleProcessorFeatures")
    IN  addEventListener(l2, CLASSIFICATION_UPDATED, "handleProcessorClassification")

\* The direction the glue maps a motor imagery class to ("" stands for null).
MovementDirection(class) ==
    CASE class = "Left Hand"  -> "left"
      [] class = "Right Hand" -> "right"
      [] class = "Feet"       -> "down"
      [] class = "Tongue"     -> "up"
      [] OTHER                -> ""

\* What a run of dispatchEvent does, as a sequence of steps:
\*   publish t .. done t   the call of dispatchEvent for type t and its return;
\*   enter h .. exit h     the call of listener h and its return;
\*   enter h .. throw h    the call of listener h, ended by an exception.
Step(op, what, detail) == [op |-> op, what |-> what, detail |-> detail]

RECURSIVE DispatchEvent(_, _, _, _)
RECURSIVE RunListeners(_, _, _, _, _)
RECURSIVE RunHandler(_, _, _, _)

\* The body of a listener: the events it publishes in turn.
RunHandler(ls, handler, detail, faulty) ==
    CASE handler = "glueFeatures" ->
            DispatchEvent(ls, "neuro-llama:features-available", detail, faulty)
      [] handler = "glueClassification" ->
            IF detail.class # ""
                  /\ MovementDirection(detail.class) # ""
                  /\ detail.confidence > MovementGate
            THEN DispatchEvent(ls, "decoder:movement-request",
                               Detail(detail.class, detail.confidence,
                                      MovementDirection(detail.class)), faulty)
            ELSE << >>
      [] handler = "glueBciStatus" ->
            DispatchEvent(ls, "processor:bci-status", detail, faulty)
      [] handler = "glueLLaMAReady" ->
            DispatchEvent(ls, "processor:connect-llama", detail, faulty)
      [] handler = "handleLLaMAConnectionRequest" ->
            DispatchEvent(ls, "processor:connection-response", detail, faulty)
      [] OTHER -> << >>

\* Mutant of RunListeners: an exception of a listener ends the delivery.
RECURSIVE RunListeners_abort(_, _, _, _, _)
RunListeners_abort(ls, handlers, i, detail, faulty) ==
    IF i > Len(handlers) THEN << >>
    ELSE IF handlers[i] \in faulty
         THEN <<Step("enter", handlers[i], detail), Step("throw", handlers[i], detail)>>
         ELSE <<Step("enter", handlers[i], detail)>>
              \o RunHandler(ls, handlers[i], detail, faulty)
              \o <<Step("exit", handlers[i], detail)>>
              \o RunListeners_abort(ls, handlers, i + 1, detail, faulty)

\* The listeners of an event run one after the other, in the order of their
\* registration; an exception thrown by one is reported and the next one runs.
RunListeners(ls, handlers, i, detail, faulty) ==
    IF i > Len(handlers) THEN << >>
    ELSE (IF handlers[i] \in faulty
          THEN <<Step("enter", handlers[i], detail), Step("throw", handlers[i], detail)>>
          ELSE <<Step("enter", handlers[i], detail)>>
               \o RunHandler(ls, handlers[i], detail, faulty)
               \o <<Step("exit", handlers[i], detail)>>)
         \o RunListeners(ls, handlers, i + 1, detail, faulty)

\* Mutant of DispatchEvent: the listeners are queued to run after the caller.
DispatchEvent_deferred(ls, type, detail, faulty) ==
    <<Step("publish", type, detail), Step("done", type, detail)>>

\* document.dispatchEvent(new CustomEvent(type, {detail})): returns when every
\* listener of the type has run.
DispatchEvent(ls, type, detail, faulty) ==
    <<Step("publish", type, detail)>>
    \o RunListeners(ls, ls[type], 1, detail, faulty)
    \o <<Step("done", type, detail)>>

\* dashboard.js: initializeComponentIntegration, for the set of modules whose
\* entry points are defined.
initializeComponentIntegration(ls, loaded) ==
    LET l1 == IF {"initNeuralSignalProcessor", "initNeuroLLaMA"} \subseteq loaded
              THEN addEventListener(
                       addEventListener(ls, FEATURES_EXTRACTED, "glueFeatures"),
                       "neuro-llama:ready", "glueLLaMAReady")
              ELSE ls
        l2 == IF {"initDecoderVisualization", "initNeuroLLaMA"} \subseteq loaded
              THEN addEventListener(l1, CLASSIFICATION_UPDATED, "glueClassification")
              ELSE l1
    IN  IF {"initBCIStatus", "initNeuralSignalProcessor"} \subseteq loaded
        THEN addEventListener(l2, "bci:status-updated", "glueBciStatus")
        ELSE l2

\* The functions the scripts of the dashboard define.
EntryPoints == {"initNeuralSignalProcessor", "initNeuroLLaMA",
                "initDecoderVisualization", "initBCIStatusMonitor"}

\* The listeners of a page with every module initialised and the glue wired,
\* by the two timers that dashboard.js arms for it.
PageListeners ==
    LET modules == initNeuralIntegration(
                       initNeuralProcessorIntegration(
                           setupComponentIntegration(NoListeners)))
    IN  initializeComponentIntegration(
            initializeComponentIntegration(modules, EntryPoints), EntryPoints)

---------------------------------------------------------------------------
(* The page load: the DOMContentLoaded listeners and the timers they arm *)

Modules == {"processor", "llama", "decoder", "bci"}

\* The function a module's script defines, which the glue looks for.
EntryPoint(m) ==
    CASE m = "processor" -> "initNeuralSignalProcessor"
      [] m = "llama"     -> "initNeuroLLaMA"
      [] m = "decoder"   -> "initDecoderVisualization"
      [] m = "bci"       -> "initBCIStatusMonitor"

Defined(scripts) == {EntryPoint(m) : m \in scripts}

Outcome(ls, result, armed, announced) ==
    [ls |-> ls, result |-> result, armed |-> armed, announced |-> announced]

\* initNeuralSignalProcessor: setupControlEventListeners calls addEventListener
\* on the element it looks up, which throws when the element is absent;
\* initDecoderBridge and setupComponentIntegration come last.
initNeuralSignalProcessor(ls, hasDom) ==
    IF hasDom
    THEN Outcome(setupComponentIntegration(ls), "done", FALSE,
                 {"processor:decoder-ready", "processor:ready"})
    ELSE Outcome(ls, "threw", FALSE, {})

\* initDecoderVisualization: returns at once without its two containers;
\* startDemoUpdates and initNeuralProcessorIntegration come last.
initDecoderVisualization(ls, hasDom) ==
    IF hasDom
    THEN Outcome(initNeuralProcessorIntegration(ls), "done", TRUE, {"decoder:ready"})
    ELSE Outcome(ls, "skipped", FALSE, {})

\* initBCIStatusMonitor: returns at once without its containers; startBCIUpdates.
initBCIStatusMonitor(ls, hasDom) ==
    IF hasDom
    THEN Outcome(ls, "done", TRUE, {})
    ELSE Outcome(ls, "skipped", FALSE, {})

\* initNeuroLLaMA: initializeUI and setupEventListeners return at once without
\* the container; checkAPIConnection arms its timer and initNeuralIntegration
\* subscribes and publishes neuro-llama:ready in either case.
initNeuroLLaMA(ls, hasDom) ==
    Outcome(initNeuralIntegration(ls), "done", TRUE, {"neuro-llama:ready"})

StartupDelay == 1000     \* dashboard.js: setTimeout(initializeComponentIntegration, 1000)
SecondDelay == 1500      \* dashboard.js: setTimeout(initializeComponentIntegration, 1500)
LLaMADelay == 1000       \* neuro-llama.js: setTimeout(initNeuroLLaMA, 1000)

Timer(fn, due) == [fn |-> fn, due |-> due]

\* The page before DOMContentLoaded, with the scripts it includes and the
\* modules whose DOM targets it holds.
NewPage(scripts, dom) ==
    [phase |-> "loading", scripts |-> scripts, dom |-> dom, timers |-> {},
     order |-> "processor", indicator |-> FALSE, processorStatus |-> "inactive",
     connectDisabled |-> FALSE,
     gluePasses |-> 0, inits |-> [m \in Modules |-> "pending"],
     armed |-> {}, announced |-> {}]

\* The page of the other specifications: every script loaded, every module
\* initialised with its DOM targets and both timers of the glue run.  The page
\* has no llama-connection-status element, without which toggleNeuralIntegration
\* publishes nothing and starts no handshake; HandshakeSpec has it.
LoadedPage ==
    [phase |-> "ready", scripts |-> Modules, dom |-> Modules, timers |-> {},
     order |-> "processor", indicator |-> FALSE, processorStatus |-> "inactive",
     connectDisabled |-> FALSE,
     gluePasses |-> 2, inits |-> [m \in Modules |-> "done"],
     armed |-> {"llama", "decoder", "bci"},
     announced |-> {"processor:decoder-ready", "processor:ready", "decoder:ready",
                    "neuro-llama:ready"}]

\* The listeners that end by an exception during one run of a handler: none,
\* or one of the decoder's, which the glue's listeners follow.
Faults == {{}, {"handleProcessorClassification"}, {"handleProcessorFeatures"}}

\* simulateSignalProcessing: simulateClassification publishes the new
\* classification, and sendFeaturesToDecoder, later, the features.
TickDelivery(ls, newClass, detail, faulty) ==
    (IF newClass
     THEN DispatchEvent(ls, CLASSIFICATION_UPDATED, detail, faulty) ELSE << >>)
    \o (IF DecoderBridgeEnabled
        THEN DispatchEvent(ls, FEATURES_EXTRACTED, detail, faulty) ELSE << >>)

---------------------------------------------------------------------------
(* bci-status.js: the device-status monitor.  Impedances are in tenths of *)
(* a kOhm and signal qualities in tenths of a percent.                    *)

ElectrodeNames ==
    {"Fp1", "Fp2", "F3", "F4", "C3", "C4", "P3", "P4", "O1", "O2",
     "T3", "T4", "T5", "T6", "Fz", "Cz", "Pz"}

Electrode(impedance, signal, status) ==
    [impedance |-> impedance, signal |-> signal, status |-> status]

\* The electrodes of the bciStatus literal.
InitElectrodes ==
    [e \in ElectrodeNames |->
        CASE e = "Fp1"  -> Electrode(124, 950, "good")
          [] e = "Fp2"  -> Electrode(87, 980, "good")
          [] e = "F3"   -> Electrode(152, 920, "good")
          [] e = "F4"   -> Electrode(101, 970, "good")
          [] e = "C3"   -> Electrode(78, 990, "good")
          [] e = "C4"   -> Electrode(113, 960, "good")
          [] e = "P3"   -> Electrode(146, 910, "good")
          [] e = "P4"   -> Electrode(92, 940, "good")
          [] e = "O1"   -> Electrode(185, 850, "poor")
          [] e = "O2"   -> Electrode(227, 780, "poor")
          [] e = "T3"   -> Electrode(134, 930, "good")
          [] e = "T4"   -> Electrode(168, 890, "moderate")
          [] e = "T5"   -> Electrode(193, 820, "poor")
          [] e = "T6"   -> Electrode(176, 870, "moderate")
          [] e = "Fz"   -> Electrode(65, 1000, "good")
          [] e = "Cz"   -> Electrode(59, 1000, "good")
          [] e = "Pz"   -> Electrode(98, 970, "good")]

InitBciStatus ==
    [connected |-> TRUE, recordingTime |-> 0, electrodes |-> InitElectrodes,
     batteryLevel |-> 87, storageUsed |-> 42]

\* The status the update and the impedance check give an impedance.
ElectrodeStatus(impedance) ==
    IF impedance < 100 THEN "good"
    ELSE IF impedance < 150 THEN "good"
    ELSE IF impedance < 200 THEN "moderate"
    ELSE "poor"

\* Mutant of Measure: the impedance is not kept within 5 and 40.
Measure_unclamped(electrode, change) ==
    [electrode EXCEPT !.impedance = @ + change,
                      !.status = ElectrodeStatus(electrode.impedance + change)]

\* An electrode after its impedance has moved by change, kept within 5 and 40.
Measure(electrode, change) ==
    LET impedance == Max(50, Min(400, electrode.impedance + change))
    IN  [electrode EXCEPT !.impedance = impedance,
                          !.status = ElectrodeStatus(impedance)]

\* The signal quality the impedance check gives an impedance, r being its
\* random term: 95 + r, 90 + r, 80 + r or 70 + r.
CheckedSignal(impedance, r) ==
    (IF impedance < 100 THEN 950
     ELSE IF impedance < 150 THEN 900
     ELSE IF impedance < 200 THEN 800
     ELSE 700) + r

\* getStatus: a shallow copy, which shares the electrodes.
getStatus(status) == status

\* The electrodes whose impedance the random term moves in the model; the
\* term of the others is 0.
Watched == {"F3", "P3", "T5"}
Checked == {"F3", "T5", "Cz"}

\* The moves of one update, (Math.random() - 0.5) * 0.5, and of one
\* impedance check, (Math.random() - 0.5) * 10.
Fluctuation == [Watched -> {-2, 2}]
CheckChange == [Checked -> {-40, 40}]

\* The move of the signal quality of every electrode in one update,
\* (Math.random() - 0.5) * 2, and the random term of the signal quality an
\* impedance check sets.
SignalChange == {-5, 5}
SignalTerm == {0, 40}

Change(moves, e) == IF e \in DOMAIN moves THEN moves[e] ELSE 0

\* The step of the progress of an impedance check, and its end.
ProgressStep == 5
ProgressEnd == 100

\* An impedance check as runImpedanceCheck starts it: its progress, whether
\* its interval timer is armed, and how often it has measured the electrodes.
NewCheck == [progress |-> 0, armed |-> TRUE, applied |-> 0]

---------------------------------------------------------------------------
(* The movement decoder: the trajectory buffer and its generators.        *)
(* Accuracy, mse, r2 and correlation are decimal fractions held in        *)
(* millionths; decodeTime and bitrate are held in thousandths.            *)

TrajectoryTypes == {"circular", "figure8", "reaching"}
DecoderModels == {"model1", "model2", "model3"}

BufferLimit == 100      \* addDecodedPosition keeps the last 100 points
TickTerm == 50          \* the random terms of a tick's metrics, in percent of their span
GeneratorSteps == 50    \* generateDemoDecoderData: steps
TargetCount == 8        \* the targets of the reaching task

\* A point of the trajectory: what pushed it, its rank among the points
\* pushed since the buffer was last emptied, and the target it reaches for.
Point(by, n, target) == [by |-> by, n |-> n, target |-> target]

\* The points a generator pushes: 50 for a circle or a figure of eight, and
\* for the reaching task Math.floor(steps / 8) for each of the 8 targets.
Generated(type) ==
    LET reachSteps == GeneratorSteps \div TargetCount IN
    IF type = "reaching"
    THEN [k \in 1..(TargetCount * reachSteps) |->
              Point(type, k, ((k - 1) \div reachSteps) + 1)]
    ELSE [k \in 1..GeneratorSteps |-> Point(type, k, 0)]

\* Mutant of generateDemoDecoderData: the arrays are not emptied.
generateDemoDecoderData_appending(data, trajectoryType) ==
    LET type == IF trajectoryType \in TrajectoryTypes THEN trajectoryType
                ELSE "circular"
    IN  [data EXCEPT !.points = @ \o Generated(type),
                     !.predicted = @ \o Generated(type),
                     !.timestamps = @ \o Generated(type),
                     !.velocities = [actual |-> @.actual \o Generated(type),
                                     predicted |-> @.predicted \o Generated(type)],
                     !.trajectoryType = type,
                     !.targets = (@ \/ type = "reaching"),
                     !.pushed = @ + Len(Generated(type)),
                     !.regenerations = @ + 1]

\* generateDemoDecoderData: the arrays are emptied, the type is set, and the
\* generator of the type fills them; an unknown type falls back to circular.
\* points is the array actual; every step of a generator pushes its entry on
\* each of the five arrays, and an entry is named by the point it belongs to.
generateDemoDecoderData(data, trajectoryType) ==
    LET type == IF trajectoryType \in TrajectoryTypes THEN trajectoryType
                ELSE "circular"
    IN  [data EXCEPT !.points = Generated(type),
                     !.predicted = Generated(type),
                     !.timestamps = Generated(type),
                     !.velocities = [actual |-> Generated(type),
                                     predicted |-> Generated(type)],
                     !.trajectoryType = type,
                     !.targets = (@ \/ type = "reaching"),
                     !.pushed = Len(Generated(type)),
                     !.regenerations = @ + 1]

\* Mutant of Push: the oldest point is never dropped.
Push_unbounded(points, point) == Append(points, point)

\* addDecodedPosition: push, then shift once when more than 100 are held.
Push(points, point) ==
    LET pushed == Append(points, point)
    IN  IF Len(pushed) > BufferLimit THEN Tail(pushed) ELSE pushed

\* The metrics as declared, and the record of a recomputation.
Metrics(mse, r2, correlation, decodeTime, bitrate) ==
    [mse |-> mse, r2 |-> r2, correlation |-> correlation,
     decodeTime |-> decodeTime, bitrate |-> bitrate]

\* v * (percent / 100), exact for the factors of the recomputation.
Percent(v, percent) == (v * percent) \div 100

\* The factors, in hundredths, by which a model and a trajectory type scale
\* accuracy, mse, r2, correlation, decodeTime and bitrate.
ModelFactor(modelId) ==
    CASE modelId = "model1" -> [accuracy |-> 105, mse |-> 80, r2 |-> 105,
                                correlation |-> 105, decodeTime |-> 110, bitrate |-> 105]
      [] modelId = "model2" -> [accuracy |-> 90, mse |-> 150, r2 |-> 90,
                                correlation |-> 95, decodeTime |-> 85, bitrate |-> 85]
      [] modelId = "model3" -> [accuracy |-> 112, mse |-> 65, r2 |-> 112,
                                correlation |-> 110, decodeTime |-> 120, bitrate |-> 115]
      [] OTHER              -> [accuracy |-> 100, mse |-> 100, r2 |-> 100,
                                correlation |-> 100, decodeTime |-> 100, bitrate |-> 100]

TrajectoryFactor(trajectoryType) ==
    CASE trajectoryType = "figure8"  -> [accuracy |-> 92, mse |-> 130, r2 |-> 92,
                                         correlation |-> 95, decodeTime |-> 100, bitrate |-> 95]
      [] trajectoryType = "reaching" -> [accuracy |-> 108, mse |-> 70, r2 |-> 105,
                                         correlation |-> 105, decodeTime |-> 100, bitrate |-> 110]
      [] OTHER                       -> [accuracy |-> 100, mse |-> 100, r2 |-> 100,
                                         correlation |-> 100, decodeTime |-> 100, bitrate |-> 100]

\* Mutant of Recomputed: accuracy and the two scores are given in percent,
\* as updateDecoderMetricsWithConfidence gives them.
Recomputed_percent(modelId, trajectoryType) ==
    LET m == ModelFactor(modelId)
        t == TrajectoryFactor(trajectoryType)
    IN  [accuracy |-> 100 * Percent(Percent(800000, m.accuracy), t.accuracy),
         metrics |-> Metrics(Percent(Percent(35000, m.mse), t.mse),
                             100 * Percent(Percent(750000, m.r2), t.r2),
                             100 * Percent(Percent(850000, m.correlation), t.correlation),
                             Percent(Percent(5000, m.decodeTime), t.decodeTime),
                             Percent(Percent(120000, m.bitrate), t.bitrate))]

\* updateDecoderModelMetrics: the base values scaled for the model and for
\* the trajectory type, then kept in their ranges.
Recomputed(modelId, trajectoryType) ==
    LET m == ModelFactor(modelId)
        t == TrajectoryFactor(trajectoryType)
    IN  [accuracy |-> Min(980000, Max(500000,
                          Percent(Percent(800000, m.accuracy), t.accuracy))),
         metrics |-> Metrics(
             Max(10000, Percent(Percent(35000, m.mse), t.mse)),
             Min(980000, Max(400000, Percent(Percent(750000, m.r2), t.r2))),
             Min(990000, Max(500000,
                 Percent(Percent(850000, m.correlation), t.correlation))),
             Max(2000, Percent(Percent(5000, m.decodeTime), t.decodeTime)),
             Max(50000, Percent(Percent(120000, m.bitrate), t.bitrate)))]

\* The metrics a tick of the demo sets now and then, r being the percentage
\* of the span its random terms take.
TickMetrics(trajectoryType, r) ==
    CASE trajectoryType = "circular" ->
            Metrics(20000 + 200 * r, 750000 + 1000 * r, 850000 + 1000 * r,
                    5000 + 10 * r, 125000 + 100 * r)
      [] trajectoryType = "figure8" ->
            Metrics(30000 + 300 * r, 650000 + 1500 * r, 800000 + 1500 * r,
                    6000 + 15 * r, 110000 + 150 * r)
      [] OTHER ->
            Metrics(10000 + 200 * r, 800000 + 1000 * r, 880000 + 800 * r,
                    4000 + 10 * r, 135000 + 120 * r)

\* updateDecoderData with accuracy, metrics and trajectoryType: the update
\* is merged into currentDecoderData, and then the type asked for is
\* compared with the type of the merged data.
updateDecoderData(data, update) ==
    LET merged == [data EXCEPT !.accuracy = update.accuracy,
                               !.metrics = update.metrics,
                               !.trajectoryType = update.trajectoryType]
    IN  IF update.trajectoryType # merged.trajectoryType
        THEN generateDemoDecoderData(merged, update.trajectoryType)
        ELSE merged

\* setTrajectoryType.
setTrajectoryType(data, type) ==
    generateDemoDecoderData([data EXCEPT !.trajectoryType = type], type)

\* currentDecoderData once initDecoderVisualization has generated the demo
\* data of the declared type.  Two counters are kept with it: the points
\* pushed since the arrays were last emptied, and the regenerations.
InitDecoderData ==
    generateDemoDecoderData(
        [points |-> << >>, predicted |-> << >>, timestamps |-> << >>,
         velocities |-> [actual |-> << >>, predicted |-> << >>],
         trajectoryType |-> "circular", targets |-> FALSE,
         accuracy |-> 850000,
         metrics |-> Metrics(25000, 780000, 890000, 5200, 128400),
         pushed |-> 0, regenerations |-> 0],
        "circular")

\* The two selectors as the page shows them at first, and the counters of
\* the recomputations of the metrics and of the changes asked for.
InitDecoderPanel ==
    [model |-> "model1", type |-> "circular", recomputations |-> 0, changes |-> 0]

\* The velocities a caller of addDecodedPosition passes: both, the actual
\* one alone, or none.
Supplied == {"both", "actual", "none"}

\* Array.prototype.shift: an empty array stays empty.
Shift(s) == IF s = << >> THEN s ELSE Tail(s)

\* Mutant of PushVelocity: a velocity is stored only when it was passed.
PushVelocity_onlySupplied(vs, point, supplied, held) ==
    IF supplied = "both" THEN Append(vs, point) ELSE vs

\* The velocity addDecodedPosition stores for a point: the one passed when
\* both were passed, else the one computed from the point before, else [0, 0]
\* when the point is the only one held.
PushVelocity(vs, point, supplied, held) ==
    IF supplied = "both" THEN Append(vs, point)
    ELSE IF held > 1 THEN Append(vs, point)
    ELSE Append(vs, Point("zero", point.n, 0))

\* addDecodedPosition on the data: a push on each of the five arrays, then a
\* shift of each when actual holds more than 100.
Inserted(data, supplied) ==
    LET point == Point("addDecodedPosition", data.pushed + 1, 0)
        held  == Len(data.points) + 1
        Kept(s) == IF held > BufferLimit THEN Shift(s) ELSE s
    IN  [data EXCEPT
          !.points = Push(@, point),
          !.predicted = Kept(Append(@, point)),
          !.timestamps = Kept(Append(@, point)),
          !.velocities = [actual |-> Kept(PushVelocity(@.actual, point, supplied, held)),
                          predicted |-> Kept(PushVelocity(@.predicted, point, supplied, held))],
          !.pushed = @ + 1]

\* The callback of startDemoUpdates: a point of the current type is added
\* (the reaching task reads the targets, and throws without them; an unknown
\* type adds nothing), and then, when refresh, the metrics are set.
DemoTicked(data, refresh, r) ==
    IF data.trajectoryType = "reaching" /\ ~data.targets THEN data
    ELSE LET added == IF data.trajectoryType \in TrajectoryTypes
                      THEN Inserted(data, "both") ELSE data
         IN  IF refresh /\ data.trajectoryType \in TrajectoryTypes
             THEN [added EXCEPT !.metrics = TickMetrics(data.trajectoryType, r)]
             ELSE added

---------------------------------------------------------------------------
(* neuro-llama.js: checkNeuralProcessorConnection *)

\* What handleLLaMAConnectionRequest answers to a connection request on this
\* page: nothing when no element matches .processor-status-indicator (the
\* listener throws on the null it looks up), 'connected' when the element has
\* the class active, 'standby' otherwise.
ProcessorReply ==
    CASE page.processorStatus = "absent" -> "none"
      [] page.processorStatus = "active" -> "connected"
      [] OTHER                           -> "standby"

\* Mutant of OnResponse: a response settles the handshake whatever its state.
OnResponse_overrides(h, status) ==
    IF h.listening
    THEN [h EXCEPT !.listening = FALSE,
                   !.state = IF status = "connected" THEN "connected" ELSE "rejected",
                   !.applied = @ + 1]
    ELSE h

\* handleResponse, the one-time listener of processor:connection-response of
\* handshake h: it removes itself and resolves the promise, which has an
\* effect only while the race is not settled.
OnResponse(h, status) ==
    IF h.listening
    THEN [h EXCEPT !.listening = FALSE,
                   !.state = IF @ = "pending"
                             THEN (IF status = "connected" THEN "connected"
                                                           ELSE "rejected")
                             ELSE @,
                   !.applied = IF h.state = "pending" THEN @ + 1 ELSE @]
    ELSE h

\* The handshakes after a processor:connection-response event of this status,
\* and the connection status once the promises it settles have run their then().
Respond(hs, status, reply) ==
    [handshakes |-> [i \in 1..Len(hs) |-> OnResponse(hs[i], reply)],
     status |-> IF \E i \in 1..Len(hs) : hs[i].listening /\ hs[i].state = "pending"
                THEN [status EXCEPT !.neuralConnected = (reply = "connected")]
                ELSE status]

\* checkNeuralProcessorConnection at time t: arms the timeout, subscribes
\* handleResponse and publishes neuro-llama:connection-request, which the
\* processor answers, or not, before dispatchEvent returns.
checkNeuralProcessorConnection(hs, status, t, reply) ==
    LET h == [due |-> t + HandshakeTimeoutMs, state |-> "pending",
              listening |-> TRUE, timer |-> TRUE, applied |-> 0]
    IN  IF reply = "none"
        THEN [handshakes |-> Append(hs, h), status |-> status]
        ELSE Respond(Append(hs, h), status, reply)

---------------------------------------------------------------------------
(* Attention weights (neural-signal-processor.js) *)

\* generateRandomAttentionMatrix: the side of every head's matrix.
SequenceLength == 16

\* The head count of the declared processorData.
InitialHeads == 8

\* Values of the attention-heads selector.
HeadCounts == {2, InitialHeads}

\* Math.random() lies in [0, 1): the model draws hundredths.
RandomScale == 100

\* The precision of a quotient: two groups of six decimal digits.
Million == 1000000

\* The draws of one head: "even" draws one half everywhere, "spike" draws zero
\* off the diagonal, "ramp" draws values that differ along a row.
MatrixDraws == {"even", "spike", "ramp"}

\* Row r of the Math.random() values of a head drawn as `draw`, in hundredths.
\* Every row has a positive entry, as sixteen consecutive zeros are not an
\* output of the generator.
RandomRow(draw, r) ==
    [c \in 1..SequenceLength |->
        CASE draw = "even"  -> RandomScale \div 2
          [] draw = "spike" -> IF c = r THEN RandomScale - 1 ELSE 0
          [] OTHER          -> (7 * (r + c) + 3 * r * c) % RandomScale]

\* row.reduce((a, b) => a + b, 0)
RECURSIVE RowSum(_, _)
RowSum(row, n) == IF n = 0 THEN 0 ELSE row[n] + RowSum(row, n - 1)

\* val / sum, rounded down to twelve decimal digits: hi millionths and lo
\* millionths of a millionth.
Quotient(val, sum) ==
    LET hi   == (val * Million) \div sum
        rest == (val * Million) % sum
    IN  [hi |-> hi, lo |-> (rest * Million) \div sum]

\* Normalize rows to sum to 1: row.map(val => val / sum).
Normalized_unscaled(row) ==
    [c \in 1..SequenceLength |-> Quotient(row[c], RandomScale)]

Normalized(row) ==
    LET sum == RowSum(row, SequenceLength)
    IN  [c \in 1..SequenceLength |-> Quotient(row[c], sum)]

\* generateRandomAttentionMatrix(numHeads), from the draws of its heads.
generateRandomAttentionMatrix(draws) ==
    [h \in 1..Len(draws) |->
        [r \in 1..SequenceLength |-> Normalized(RandomRow(draws[h], r))]]

\* What Math.random() may give to a call with numHeads heads: every head drawn
\* alike, or the heads taking the draws in turn.
HeadDraws(numHeads) ==
    {[h \in 1..numHeads |-> d] : d \in MatrixDraws}
       \cup {[h \in 1..numHeads |->
                 CASE h % 3 = 0 -> "even" [] h % 3 = 1 -> "spike" [] OTHER -> "ramp"]}

\* The regenerations a tick or a change of the selector may make.
Regenerations == UNION {HeadDraws(n) : n \in HeadCounts}

\* A tick that leaves the weights alone (Math.random() >= 0.3).
NoRegeneration == << >>

\* Values of the attention-layer selector, whose options updateLayerSelector
\* numbers from 0: the first layer and the fourth.
Layers == {0, 3}

\* updateAttentionHeatmap(layerIndex) after a regeneration: it reads
\* processorData.attentionWeights[layerIndex], which is undefined when the
\* index is not below the number of heads, and calls flatMap on it.
HeatmapFaults(attention, layer) ==
    attention # NoRegeneration /\ layer >= Len(attention)

\* simulateSignalProcessing: with probability 0.3 the weights are generated
\* again, for the head count the selector shows; `attention` is the draws of
\* that call, or NoRegeneration.
Reweighted(data, attention) ==
    IF attention = NoRegeneration THEN data
    ELSE [data EXCEPT !.attentionWeights = attention]

---------------------------------------------------------------------------
(* Initial state *)

InitVerb == [confidence |-> 0, direction |-> "null", active |-> FALSE,
             triggered |-> FALSE, lastTriggered |-> 0]

\* processorData as declared; frequencyBands is one sample of the band powers
\* and attentionWeights holds the draws generateRandomAttentionMatrix made, of
\* which the weights are a function.
IdleData(band) == [classificationResult |-> "Idle", confidence |-> 0,
                   frequencyBands |-> band,
                   attentionWeights |-> [h \in 1..InitialHeads |-> "ramp"]]

\* The neuroLLaMA object as declared: the conversation is empty, nothing is
\* being typed.  typing holds the running intervals of simulateTypingEffect,
\* each with the text it types and its charIndex.
InitNeuroLLaMA ==
    [active |-> FALSE, threshold |-> Threshold,
     promptHistory |-> << >>, responseHistory |-> << >>,
     thinking |-> FALSE, streamingResponse |-> FALSE, typing |-> << >>]

Init ==
    /\ neuroLLaMA = InitNeuroLLaMA
    /\ ACTION_VERBS = [a \in ActionNames |-> InitVerb]
    /\ now = Epoch
    /\ panelTimers = {}
    /\ processorActive = FALSE
    /\ processorIntervalId = 0
    /\ intervals = {}
    /\ processorData = IdleData(50)
    /\ decodedOutputHistory = InitHistory
    /\ classToMovementMap = InitMovementMap
    /\ movementParameters = NoMovement
    /\ listeners = PageListeners
    /\ delivery = << >>
    /\ page = LoadedPage
    /\ handshakes = << >>
    /\ connectionStatus = [neuralConnected |-> FALSE]
    /\ bciStatus = InitBciStatus
    /\ impedanceChecks = << >>
    /\ currentDecoderData = InitDecoderData
    /\ decoderPanel = InitDecoderPanel
    /\ published = [classification |-> 0, features |-> 0, ticks |-> 0]
    /\ halted = TRUE
    /\ event = NoEvent
    /\ fired = NoAction

---------------------------------------------------------------------------
(* Action-State Engine: handlers *)

\* The body of handleNeuralClassification once the engine is found active.
\* Returns the accumulators, the pending panel timers and the action triggered.
ProcessClassification(av, timers, t, classification, confidence) ==
    LET updated == updateActionStates(av, classification, confidence)
        timers1 == updateActionStatePanel(updated, timers, t)
        out     == considerTriggeringAction(updated, t)
    IN  IF Qualifies(confidence)
        THEN [verbs  |-> out.verbs,
              timers |-> IF out.fired # NoAction
                         THEN updateActionStatePanel(out.verbs, timers1, t)
                         ELSE timers1,
              fired  |-> out.fired]
        ELSE [verbs |-> updated, timers |-> timers1, fired |-> NoAction]

\* handleNeuralClassification, for an event {class, confidence} (k hundredths).
handleNeuralClassification(classification, k) ==
    /\ event' = [type |-> "classification", class |-> classification, confidence |-> k]
    /\ IF ~EngineListening
       THEN /\ UNCHANGED <<ACTION_VERBS, panelTimers>>
            /\ fired' = NoAction
       ELSE LET out == ProcessClassification(ACTION_VERBS, panelTimers, now,
                                             classification, Conf(k))
            IN  /\ Room(ACTION_VERBS, IF classification = "Rest" THEN 2 ELSE 1)
                /\ ACTION_VERBS' = out.verbs
                /\ panelTimers' = out.timers
                /\ fired' = out.fired
    /\ UNCHANGED <<neuroLLaMA, now>>
    /\ UNCHANGED <<linkVars, bciVars, decoderVars>>
    /\ UNCHANGED notEngineVars

\* handleNeuralFeatures, for an event whose detail carries features or not:
\* it calls updateActionStates() without arguments.
handleNeuralFeatures(hasFeatures) ==
    /\ event' = [type |-> "features", class |-> "", confidence |-> 0]
    /\ IF EngineListening /\ hasFeatures
       THEN LET updated == updateActionStates(ACTION_VERBS, "undefined", 0) IN
            /\ Room(ACTION_VERBS, 1)
            /\ ACTION_VERBS' = updated
            /\ panelTimers' = updateActionStatePanel(updated, panelTimers, now)
       ELSE UNCHANGED <<ACTION_VERBS, panelTimers>>
    /\ fired' = NoAction
    /\ UNCHANGED <<neuroLLaMA, now>>
    /\ UNCHANGED <<linkVars, bciVars, decoderVars>>
    /\ UNCHANGED notEngineVars

\* The reset loop of toggleNeuralIntegration.
ResetVerbs(av) ==
    [a \in ActionNames |->
        [av[a] EXCEPT !.confidence = 0, !.active = FALSE, !.triggered = FALSE]]

\* toggleNeuralIntegration.  With the connection indicator on the page it
\* publishes neuro-llama:activation and, when enabling, starts a handshake.
toggleNeuralIntegration ==
    /\ neuroLLaMA' = [neuroLLaMA EXCEPT !.active = ~@]
    /\ IF page.indicator /\ ~neuroLLaMA.active
       THEN LET out == checkNeuralProcessorConnection(handshakes, connectionStatus,
                                                      now, ProcessorReply)
            IN  /\ handshakes' = out.handshakes
                /\ connectionStatus' = out.status
                /\ delivery' =
                      DispatchEvent(listeners, "neuro-llama:activation", NoDetail, {})
                      \o DispatchEvent(listeners, "neuro-llama:connection-request",
                                       NoDetail,
                                       IF ProcessorReply = "none"
                                       THEN {"handleLLaMAConnectionRequest"} ELSE {})
       ELSE /\ UNCHANGED linkVars
            /\ delivery' = IF page.indicator
                           THEN DispatchEvent(listeners, "neuro-llama:activation",
                                              NoDetail, {})
                           ELSE << >>
    /\ ACTION_VERBS' = ResetVerbs(ACTION_VERBS)
    /\ panelTimers' = updateActionStatePanel(ResetVerbs(ACTION_VERBS), panelTimers, now)
    /\ event' = NoEvent
    /\ fired' = NoAction
    /\ UNCHANGED now
    /\ UNCHANGED <<procVars, listeners, page, bciVars, decoderVars>>

\* A timer of updateActionStatePanel runs: actionState.triggered = false.
PanelTimeout(t) ==
    /\ t \in panelTimers
    /\ t.due <= now
    /\ panelTimers' = panelTimers \ {t}
    /\ ACTION_VERBS' = [ACTION_VERBS EXCEPT ![t.action].triggered = FALSE]
    /\ event' = NoEvent
    /\ fired' = NoAction
    /\ UNCHANGED <<neuroLLaMA, now>>
    /\ UNCHANGED <<linkVars, bciVars, decoderVars>>
    /\ UNCHANGED notEngineVars

\* Time passes.  A timer callback runs in the clock step in which it falls due.
AdvanceClock ==
    /\ now < Epoch + MaxClock * ClockStep
    /\ \A t \in panelTimers : t.due > now
    /\ \A t \in page.timers : t.due > now
    /\ \A i \in 1..Len(handshakes) : handshakes[i].timer => handshakes[i].due > now
    /\ now' = now + ClockStep
    /\ event' = NoEvent
    /\ fired' = NoAction
    /\ delivery' = << >>
    /\ UNCHANGED <<linkVars, bciVars, decoderVars>>
    /\ UNCHANGED <<neuroLLaMA, ACTION_VERBS, panelTimers>>
    /\ UNCHANGED <<procVars, listeners, page>>

\* The engine under any sequence of events and toggles.  updateActionStates
\* reads no clock: the accumulators' confidences do not depend on the time
\* at which the events arrive, which TimedSpec adds.
Next ==
    \/ \E c \in ClassLabels, k \in ConfLevels : handleNeuralClassification(c, k)
    \/ \E f \in BOOLEAN : handleNeuralFeatures(f)
    \/ toggleNeuralIntegration

Spec == Init /\ [][Next]_vars

\* The engine with the clock running.
TimedNext ==
    \/ \E c \in TimedClasses, k \in TimedLevels : handleNeuralClassification(c, k)
    \/ \E f \in BOOLEAN : handleNeuralFeatures(f)
    \/ toggleNeuralIntegration
    \/ \E t \in panelTimers : PanelTimeout(t)
    \/ AdvanceClock

TimedSpec == Init /\ [][TimedNext]_vars

\* The engine with the clock running, under events of full confidence and
\* of the threshold's: an accumulator is raised to 1, time passes and Rest comes.
RestNext ==
    \/ \E c \in {"Right Hand", "Tongue", "Rest"}, k \in {Threshold, 100} :
          handleNeuralClassification(c, k)
    \/ toggleNeuralIntegration
    \/ \E t \in panelTimers : PanelTimeout(t)
    \/ AdvanceClock

RestSpec == Init /\ [][RestNext]_vars

---------------------------------------------------------------------------
(* Conversation: neuro-llama.js *)

\* The texts of the prompt input when a prompt is sent.
Prompts == {"hello", "why"}

\* How many prompts, responses and typing intervals the model follows.
MaxPrompts == 2

\* The characters of a response the typing effect types before it is done.
ReplyLength == 1

\* simulateLLaMAResponse chooses the text by the prompt's words.
simulateLLaMAResponse(prompt) ==
    IF prompt = "hello" THEN "Hello! I'm NeuroLLaMA" ELSE "I notice your neural signals"

\* Array.prototype.pop: an empty array stays empty.
Pop(s) == IF s = << >> THEN s ELSE SubSeq(s, 1, Len(s) - 1)

\* What the handlers of the conversation leave alone.
chatNotTouched == <<ACTION_VERBS, now, panelTimers, notEngineVars, linkVars,
                    bciVars, decoderVars>>

\* sendPromptToLLaMA with the text `prompt' in the input: by the send button,
\* the Enter key, or the select action of triggerAction.  An empty input
\* returns at once.  The prompt is stored and a typing interval started.
sendPromptToLLaMA(prompt) ==
    /\ prompt # ""
    /\ neuroLLaMA' = [neuroLLaMA EXCEPT
          !.thinking = TRUE,
          !.promptHistory = Append(@, prompt),
          !.streamingResponse = TRUE,
          !.typing = Append(@, [text |-> simulateLLaMAResponse(prompt),
                                charIndex |-> 0])]
    /\ event' = NoEvent
    /\ fired' = NoAction
    /\ UNCHANGED chatNotTouched

\* One run of the interval callback of simulateTypingEffect: it types a
\* character, or, the text typed, clears itself and stores the response.
typingInterval(i) ==
    /\ i \in 1..Len(neuroLLaMA.typing)
    /\ LET t == neuroLLaMA.typing[i] IN
       IF t.charIndex < ReplyLength
       THEN neuroLLaMA' = [neuroLLaMA EXCEPT !.typing[i].charIndex = @ + 1]
       ELSE neuroLLaMA' = [neuroLLaMA EXCEPT
              !.typing = SubSeq(@, 1, i - 1) \o SubSeq(@, i + 1, Len(@)),
              !.responseHistory = Append(@, t.text),
              !.streamingResponse = FALSE,
              !.thinking = FALSE]
    /\ event' = NoEvent
    /\ fired' = NoAction
    /\ UNCHANGED chatNotTouched

\* clearConversation, by the clear button or the delete action: both
\* histories are emptied; a running typing interval is left running.
clearConversation ==
    /\ neuroLLaMA' = [neuroLLaMA EXCEPT !.promptHistory = << >>,
                                        !.responseHistory = << >>]
    /\ event' = NoEvent
    /\ fired' = NoAction
    /\ UNCHANGED chatNotTouched

\* clearRecentHistory, by the backward navigate action on an empty input.
clearRecentHistory ==
    /\ IF neuroLLaMA.promptHistory # << >>
       THEN neuroLLaMA' = [neuroLLaMA EXCEPT !.promptHistory = Pop(@),
                                            !.responseHistory = Pop(@)]
       ELSE UNCHANGED neuroLLaMA
    /\ event' = NoEvent
    /\ fired' = NoAction
    /\ UNCHANGED chatNotTouched

\* The conversation under prompts, typing and clearing in any order.
ChatNext ==
    \/ /\ Len(neuroLLaMA.promptHistory) < MaxPrompts
       /\ Len(neuroLLaMA.responseHistory) < MaxPrompts
       /\ Len(neuroLLaMA.typing) < MaxPrompts
       /\ \E prompt \in Prompts : sendPromptToLLaMA(prompt)
    \/ \E i \in 1..Len(neuroLLaMA.typing) : typingInterval(i)
    \/ clearConversation
    \/ clearRecentHistory

ChatSpec == Init /\ [][ChatNext]_vars

---------------------------------------------------------------------------
(* Signal Classifier: neural-signal-processor.js *)

\* generateRandomBandPowers: 20 + Math.random() * 60.
BandInit == {20, 75}

\* updateFrequencyBands: (Math.random() - 0.5) * 10, its two extremes.
BandChange == {-5, 5}
TickBandChange == 5

\* simulateClassification: 0.5 + Math.random() * 0.5, in hundredths.
NewConfidence == {50, 95}

\* simulateClassification: (Math.random() - 0.5) * 0.1, in hundredths.
Nudge == {-5, 5}

Clamp(lo, hi, v) == Max(lo, Min(hi, v))


\* setInterval returns an id no armed timer and no handle held by the module has.
NewIntervalId ==
    CHOOSE id \in 1..(Cardinality(intervals) + 2) :
        /\ id \notin intervals
        /\ id # processorIntervalId
        /\ \A j \in 1..(id - 1) : j \in intervals \/ j = processorIntervalId

\* Mutant of StartEffect: startProcessor without its guard.
StartEffect_unguarded ==
    /\ processorActive' = TRUE
    /\ processorIntervalId' = NewIntervalId
    /\ intervals' = intervals \cup {NewIntervalId}

\* The body of startProcessor.
StartEffect ==
    IF ~processorActive
    THEN /\ processorActive' = TRUE
         /\ processorIntervalId' = NewIntervalId
         /\ intervals' = intervals \cup {NewIntervalId}
    ELSE UNCHANGED <<processorActive, processorIntervalId, intervals>>

\* Mutant of StopEffect: the guard of stopProcessor inverted.
StopEffect_inverted ==
    IF ~processorActive
    THEN /\ processorActive' = FALSE
         /\ intervals' = intervals \ {processorIntervalId}
         /\ UNCHANGED processorIntervalId
    ELSE UNCHANGED <<processorActive, processorIntervalId, intervals>>

\* The body of stopProcessor.
StopEffect ==
    IF processorActive
    THEN /\ processorActive' = FALSE
         /\ intervals' = intervals \ {processorIntervalId}
         /\ UNCHANGED processorIntervalId
    ELSE UNCHANGED <<processorActive, processorIntervalId, intervals>>

startProcessor ==
    /\ StartEffect
    /\ halted' = FALSE
    /\ UNCHANGED <<processorData, published>>
    /\ UNCHANGED <<decodedOutputHistory, classToMovementMap, movementParameters>>
    /\ UNCHANGED busVars
    /\ UNCHANGED notProcVars

stopProcessor ==
    /\ StopEffect
    /\ halted' = TRUE
    /\ UNCHANGED <<processorData, published>>
    /\ UNCHANGED <<decodedOutputHistory, classToMovementMap, movementParameters>>
    /\ UNCHANGED busVars
    /\ UNCHANGED notProcVars

\* resetProcessor: stop if running, then reset the data (new random band powers).
resetProcessor ==
    /\ StopEffect
    /\ \E band \in BandInit :
          processorData' = [IdleData(band) EXCEPT
                               !.attentionWeights = processorData.attentionWeights]
    /\ halted' = TRUE
    /\ UNCHANGED published
    /\ UNCHANGED <<decodedOutputHistory, classToMovementMap, movementParameters>>
    /\ UNCHANGED busVars
    /\ UNCHANGED notProcVars

\* The guard of processorTick: if (!processorActive) return.
TickRuns == processorActive

\* processorTick, called by the interval timer id, with the band powers moving
\* by change and the listeners in faulty ending by an exception: updateFrequencyBands,
\* simulateClassification, updateDecodedOutputHistory and sendFeaturesToDecoder.
\* The engine is in its initial, disabled state under ProcSpec, where its two
\* handlers return at once.
processorTick(id, change, faulty, attention, layer) ==
    /\ id \in intervals
    /\ IF ~TickRuns
       THEN /\ UNCHANGED <<processorData, published>>
            /\ UNCHANGED <<decodedOutputHistory, classToMovementMap, movementParameters>>
            /\ delivery' = << >>
       ELSE \E newClass \in BOOLEAN :
              LET band == Clamp(0, 100, processorData.frequencyBands + change)
                  sent == IF DecoderBridgeEnabled /\ ~HeatmapFaults(attention, layer)
                          THEN 1 ELSE 0
              IN
              /\ IF newClass
                 THEN \E c \in ClassLabels, k \in NewConfidence :
                        /\ processorData' =
                             Reweighted([processorData EXCEPT
                                            !.classificationResult = c,
                                            !.confidence = k,
                                            !.frequencyBands = band], attention)
                        /\ published' =
                             [classification |-> published.classification + 1,
                              features |-> published.features + sent,
                              ticks |-> published.ticks + 1]
                 ELSE \E d \in Nudge :
                        /\ processorData' =
                             Reweighted([processorData EXCEPT
                                            !.confidence = Clamp(50, 100, @ + d),
                                            !.frequencyBands = band], attention)
                        /\ published' = [published EXCEPT !.features = @ + sent,
                                                          !.ticks = @ + 1]
              /\ decodedOutputHistory' = updateDecodedOutputHistory(decodedOutputHistory)
              /\ IF sent = 1
                 THEN LET out == updateMovementParameters(classToMovementMap,
                                     processorData'.classificationResult,
                                     processorData'.confidence)
                      IN  /\ classToMovementMap' = out.map
                          /\ movementParameters' = out.parameters
                 ELSE UNCHANGED <<classToMovementMap, movementParameters>>
              /\ LET detail == Detail(processorData'.classificationResult,
                                      processorData'.confidence, "")
                 IN  delivery' =
                        IF HeatmapFaults(attention, layer)
                        THEN (IF newClass
                              THEN DispatchEvent(listeners, CLASSIFICATION_UPDATED,
                                                 detail, faulty)
                              ELSE << >>)
                        ELSE TickDelivery(listeners, newClass, detail, faulty)
    /\ UNCHANGED <<processorActive, processorIntervalId, intervals, halted>>
    /\ UNCHANGED <<listeners, page>>
    /\ UNCHANGED notProcVars

\* The change listener of the attention-heads selector: the weights are
\* generated again for parseInt(e.target.value) heads.
changeAttentionHeads(draws) ==
    /\ processorData' = [processorData EXCEPT !.attentionWeights = draws]
    /\ event' = [type |-> "attention-heads", heads |-> Len(draws)]
    /\ UNCHANGED <<processorActive, processorIntervalId, intervals, halted, published>>
    /\ UNCHANGED <<decodedOutputHistory, classToMovementMap, movementParameters>>
    /\ UNCHANGED busVars
    /\ UNCHANGED <<engineVars, linkVars, bciVars, decoderVars, fired>>

\* The processor module as declared, with its random initial band powers.
ProcInit ==
    /\ neuroLLaMA = InitNeuroLLaMA
    /\ ACTION_VERBS = [a \in ActionNames |-> InitVerb]
    /\ now = Epoch
    /\ panelTimers = {}
    /\ processorActive = FALSE
    /\ processorIntervalId = 0
    /\ intervals = {}
    /\ \E band \in BandInit : processorData = IdleData(band)
    /\ decodedOutputHistory = InitHistory
    /\ classToMovementMap = InitMovementMap
    /\ movementParameters = NoMovement
    /\ listeners = PageListeners
    /\ delivery = << >>
    /\ page = LoadedPage
    /\ handshakes = << >>
    /\ connectionStatus = [neuralConnected |-> FALSE]
    /\ bciStatus = InitBciStatus
    /\ impedanceChecks = << >>
    /\ currentDecoderData = InitDecoderData
    /\ decoderPanel = InitDecoderPanel
    /\ published = [classification |-> 0, features |-> 0, ticks |-> 0]
    /\ halted = TRUE
    /\ event = NoEvent
    /\ fired = NoAction

\* The processor under its three buttons and its timer, every listener
\* returning normally.
---------------------------------------------------------------------------
(* The page: loading, wiring and the events published on it *)

\* The ready events a module publishes while it initialises, in order.
ReadyEvents(m) ==
    CASE m = "processor" -> <<"processor:decoder-ready", "processor:ready">>
      [] m = "decoder"   -> <<"decoder:ready">>
      [] OTHER           -> << >>

\* The deliveries of the ready events of module m, whose initialisation ended
\* as `out`: each reaches the listeners registered by then.  No module
\* subscribes to an event of its own.
RECURSIVE AnnounceFrom(_, _, _)
AnnounceFrom(out, events, i) ==
    IF i > Len(events) THEN << >>
    ELSE DispatchEvent(out.ls, events[i], NoDetail, {}) \o AnnounceFrom(out, events, i + 1)

Announce(out, m) ==
    IF out.result = "done" THEN AnnounceFrom(out, ReadyEvents(m), 1) ELSE << >>

\* The DOMContentLoaded event: the listeners of the scripts run one after the
\* other, in the order in which the page includes the scripts (page.order names
\* the one of the processor and the decoder that comes first).  Those of the
\* processor, the decoder and the device-status monitor initialise their
\* module; those of dashboard.js and neuro-llama.js arm timers.
DOMContentLoaded ==
    /\ page.phase = "loading"
    /\ LET processor(ls) == IF "processor" \in page.scripts
                            THEN initNeuralSignalProcessor(ls, "processor" \in page.dom)
                            ELSE Outcome(ls, "pending", FALSE, {})
           decoder(ls)   == IF "decoder" \in page.scripts
                            THEN initDecoderVisualization(ls, "decoder" \in page.dom)
                            ELSE Outcome(ls, "pending", FALSE, {})
           p == IF page.order = "processor" THEN processor(listeners)
                ELSE processor(decoder(listeners).ls)
           d == IF page.order = "processor" THEN decoder(p.ls)
                ELSE decoder(listeners)
           b == IF "bci" \in page.scripts
                THEN initBCIStatusMonitor(IF page.order = "processor" THEN d.ls ELSE p.ls,
                                          "bci" \in page.dom)
                ELSE Outcome(IF page.order = "processor" THEN d.ls ELSE p.ls,
                             "pending", FALSE, {})
       IN  /\ listeners' = b.ls
           /\ delivery' = IF page.order = "processor"
                          THEN Announce(p, "processor") \o Announce(d, "decoder")
                          ELSE Announce(d, "decoder") \o Announce(p, "processor")
           /\ page' = [page EXCEPT
                 !.phase = "ready",
                 !.timers = {Timer("initializeComponentIntegration", now + StartupDelay),
                             Timer("initializeComponentIntegration", now + SecondDelay)}
                            \cup (IF "llama" \in page.scripts
                                  THEN {Timer("initNeuroLLaMA", now + LLaMADelay)}
                                  ELSE {}),
                 !.inits = [@ EXCEPT !["processor"] = p.result,
                                     !["decoder"] = d.result,
                                     !["bci"] = b.result],
                 !.armed = {m \in {"decoder"} : d.armed} \cup {m \in {"bci"} : b.armed},
                 !.announced = p.announced \cup d.announced \cup b.announced]
    /\ event' = NoEvent
    /\ fired' = NoAction
    /\ UNCHANGED <<engineVars, procVars, linkVars, bciVars, decoderVars>>

\* A timer armed at DOMContentLoaded runs: the glue pass, or initNeuroLLaMA.
PageTimeout(t) ==
    /\ t \in page.timers
    /\ t.due <= now
    /\ IF t.fn = "initializeComponentIntegration"
       THEN /\ listeners' = initializeComponentIntegration(listeners,
                                                           Defined(page.scripts))
            /\ page' = [page EXCEPT !.timers = @ \ {t}, !.gluePasses = @ + 1]
            /\ delivery' = << >>
       ELSE LET out == initNeuroLLaMA(listeners, "llama" \in page.dom) IN
            /\ listeners' = out.ls
            /\ page' = [page EXCEPT !.timers = @ \ {t},
                                    !.inits["llama"] = out.result,
                                    !.armed = @ \cup {m \in {"llama"} : out.armed},
                                    !.announced = @ \cup out.announced]
            /\ delivery' = DispatchEvent(listeners', "neuro-llama:ready", NoDetail, {})
    /\ event' = NoEvent
    /\ fired' = NoAction
    /\ UNCHANGED <<engineVars, procVars, linkVars, bciVars, decoderVars>>

\* An initialised processor publishes processor:classification-updated
\* (class, confidence k hundredths).  The engine is disabled, so that its
\* listener returns at once.
PublishClassification(class, k) ==
    /\ page.inits["processor"] = "done"
    /\ ~neuroLLaMA.active
    /\ delivery' = DispatchEvent(listeners, CLASSIFICATION_UPDATED,
                                 Detail(class, k, ""), {})
    /\ event' = [type |-> "classification", class |-> class, confidence |-> k]
    /\ fired' = NoAction
    /\ UNCHANGED <<engineVars, procVars, linkVars, bciVars, decoderVars, listeners, page>>

\* A bci:status-updated event is published on the page.
PublishBciStatus ==
    /\ page.phase = "ready"
    /\ delivery' = DispatchEvent(listeners, "bci:status-updated", NoDetail, {})
    /\ event' = [type |-> "bci-status", class |-> "", confidence |-> 0]
    /\ fired' = NoAction
    /\ UNCHANGED <<engineVars, procVars, linkVars, bciVars, decoderVars, listeners, page>>

\* The confidences of the classifications published on the page, in
\* hundredths: below, on and above the gate of the glue.
PageLevels == {50, 65, 70}

PageInit ==
    /\ neuroLLaMA = InitNeuroLLaMA
    /\ ACTION_VERBS = [a \in ActionNames |-> InitVerb]
    /\ now = Epoch
    /\ panelTimers = {}
    /\ processorActive = FALSE
    /\ processorIntervalId = 0
    /\ intervals = {}
    /\ processorData = IdleData(50)
    /\ decodedOutputHistory = InitHistory
    /\ classToMovementMap = InitMovementMap
    /\ movementParameters = NoMovement
    /\ listeners = NoListeners
    /\ delivery = << >>
    /\ \E scripts \in SUBSET Modules, dom \in SUBSET Modules,
          first \in {"processor", "decoder"} :
          /\ dom \subseteq scripts
          /\ page = [NewPage(scripts, dom) EXCEPT !.order = first]
    /\ handshakes = << >>
    /\ connectionStatus = [neuralConnected |-> FALSE]
    /\ bciStatus = InitBciStatus
    /\ impedanceChecks = << >>
    /\ currentDecoderData = InitDecoderData
    /\ decoderPanel = InitDecoderPanel
    /\ published = [classification |-> 0, features |-> 0, ticks |-> 0]
    /\ halted = TRUE
    /\ event = NoEvent
    /\ fired = NoAction

PageNext ==
    \/ DOMContentLoaded
    \/ \E t \in page.timers : PageTimeout(t)
    \/ AdvanceClock
    \/ \E c \in ClassLabels, k \in PageLevels : PublishClassification(c, k)
    \/ PublishBciStatus

PageSpec == PageInit /\ [][PageNext]_vars

---------------------------------------------------------------------------
(* The connection handshake *)

\* The 2000 ms timer of handshake i runs: resolve({connected: false, reason:
\* 'timeout'}), which has an effect only while the race is not settled.
HandshakeTimeout(i) ==
    /\ i \in 1..Len(handshakes)
    /\ handshakes[i].timer
    /\ handshakes[i].due <= now
    /\ handshakes' = [handshakes EXCEPT
          ![i].timer = FALSE,
          ![i].state = IF @ = "pending" THEN "timeout" ELSE @,
          ![i].applied = IF handshakes[i].state = "pending" THEN @ + 1 ELSE @]
    /\ connectionStatus' = IF handshakes[i].state = "pending"
                           THEN [connectionStatus EXCEPT !.neuralConnected = FALSE]
                           ELSE connectionStatus
    /\ delivery' = << >>
    /\ event' = NoEvent
    /\ fired' = NoAction
    /\ UNCHANGED <<engineVars, procVars, listeners, page, bciVars, decoderVars>>

\* A processor:connection-response event of this status is published while a
\* handshake listens.
ConnectionResponse(reply) ==
    /\ \E i \in 1..Len(handshakes) : handshakes[i].listening
    /\ LET out == Respond(handshakes, connectionStatus, reply) IN
          /\ handshakes' = out.handshakes
          /\ connectionStatus' = out.status
    /\ delivery' = DispatchEvent(listeners, "processor:connection-response",
                                 NoDetail, {})
    /\ event' = [type |-> "connection-response", class |-> reply, confidence |-> 0]
    /\ fired' = NoAction
    /\ UNCHANGED <<engineVars, procVars, listeners, page, bciVars, decoderVars>>

\* The loaded page with the connection indicator, and a processor that
\* answers 'connected', 'standby' or not at all.
HandshakeInit ==
    /\ neuroLLaMA = InitNeuroLLaMA
    /\ ACTION_VERBS = [a \in ActionNames |-> InitVerb]
    /\ now = Epoch
    /\ panelTimers = {}
    /\ processorActive = FALSE
    /\ processorIntervalId = 0
    /\ intervals = {}
    /\ processorData = IdleData(50)
    /\ decodedOutputHistory = InitHistory
    /\ classToMovementMap = InitMovementMap
    /\ movementParameters = NoMovement
    /\ listeners = PageListeners
    /\ delivery = << >>
    /\ \E s \in {"absent", "inactive", "active"} :
          page = [LoadedPage EXCEPT !.indicator = TRUE, !.processorStatus = s]
    /\ handshakes = << >>
    /\ connectionStatus = [neuralConnected |-> FALSE]
    /\ bciStatus = InitBciStatus
    /\ impedanceChecks = << >>
    /\ currentDecoderData = InitDecoderData
    /\ decoderPanel = InitDecoderPanel
    /\ published = [classification |-> 0, features |-> 0, ticks |-> 0]
    /\ halted = TRUE
    /\ event = NoEvent
    /\ fired = NoAction

HandshakeNext ==
    \/ /\ neuroLLaMA.active \/ Len(handshakes) < MaxHandshakes
       /\ toggleNeuralIntegration
    \/ \E i \in 1..Len(handshakes) : HandshakeTimeout(i)
    \/ \E reply \in {"connected", "standby"} : ConnectionResponse(reply)
    \/ AdvanceClock

HandshakeSpec == HandshakeInit /\ [][HandshakeNext]_vars

\* The handshake beside the processor's start and stop buttons, which
\* updateProcessorStatus follows by the classes status-active and
\* status-inactive of the element processor-status-indicator: the element and
\* the class that handleLLaMAConnectionRequest looks up are left as the page
\* has them.
LinkNext ==
    \/ startProcessor
    \/ stopProcessor
    \/ HandshakeNext

LinkSpec == HandshakeInit /\ [][LinkNext]_vars

---------------------------------------------------------------------------
(* The device-status monitor: actions *)

bciNotTouched ==
    /\ delivery' = << >>
    /\ event' = NoEvent
    /\ fired' = NoAction
    /\ UNCHANGED <<engineVars, procVars, linkVars, decoderVars, listeners>>

\* bciStatusMonitor.toggleConnection.
toggleConnection ==
    /\ bciStatus' = [bciStatus EXCEPT !.connected = ~@]
    /\ UNCHANGED <<impedanceChecks, page>>
    /\ bciNotTouched

\* The status after one callback of startBCIUpdates with these random draws.
Ticked(status, moves, signal, drain, fill) ==
    [status EXCEPT
        !.recordingTime = @ + 1,
        !.batteryLevel = IF drain THEN Max(0, @ - 1) ELSE @,
        !.storageUsed = IF fill THEN Min(100, @ + 1) ELSE @,
        !.electrodes = [e \in ElectrodeNames |->
            Measure([@[e] EXCEPT !.signal = Max(500, Min(1000, @ + signal))],
                    Change(moves, e))]]

\* Mutant of Updated: the callback does not look at the connection.
Updated_always(status, moves, signal, drain, fill) ==
    Ticked(status, moves, signal, drain, fill)

\* The callback of startBCIUpdates: it does nothing while disconnected.
Updated(status, moves, signal, drain, fill) ==
    IF status.connected THEN Ticked(status, moves, signal, drain, fill) ELSE status

\* The callback of startBCIUpdates, every second: while connected, the
\* recording time grows, the battery drains and the storage fills at random,
\* and the signal and the impedance of every electrode move.
bciUpdate(moves, signal, drain, fill) ==
    /\ bciStatus' = Updated(bciStatus, moves, signal, drain, fill)
    /\ UNCHANGED <<impedanceChecks, page>>
    /\ bciNotTouched

\* bciStatusMonitor.runImpedanceCheck: the connection button is disabled,
\* the progress starts at 0 and the interval timer of 100 ms is armed.
runImpedanceCheck ==
    /\ impedanceChecks' = Append(impedanceChecks, NewCheck)
    /\ page' = [page EXCEPT !.connectDisabled = TRUE]
    /\ UNCHANGED bciStatus
    /\ bciNotTouched

\* Mutant of Advance: the timer stays armed after the end.
Advance_armed(check) ==
    [check EXCEPT !.progress = @ + ProgressStep,
                  !.applied = IF check.progress + ProgressStep >= ProgressEnd
                              THEN @ + 1 ELSE @]

\* The check after one call of its interval callback: the progress grows
\* by 5 and, at 100 or more, clearInterval and the measurement.
Advance(check) ==
    [check EXCEPT !.progress = @ + ProgressStep,
                  !.armed = check.progress + ProgressStep < ProgressEnd,
                  !.applied = IF check.progress + ProgressStep >= ProgressEnd
                              THEN @ + 1 ELSE @]

\* The callback of progressInterval of check i; at the end every electrode
\* gets a new impedance, its status and a signal quality of its band.
progressInterval(i, moves, r) ==
    /\ i \in 1..Len(impedanceChecks)
    /\ impedanceChecks[i].armed
    /\ impedanceChecks' = [impedanceChecks EXCEPT ![i] = Advance(@)]
    /\ IF impedanceChecks'[i].applied > impedanceChecks[i].applied
       THEN /\ bciStatus' = [bciStatus EXCEPT
                  !.electrodes = [e \in ElectrodeNames |->
                      LET m == Measure(@[e], Change(moves, e))
                      IN  [m EXCEPT !.signal = CheckedSignal(m.impedance, r)]]]
            /\ page' = [page EXCEPT !.connectDisabled = FALSE]
       ELSE UNCHANGED <<bciStatus, page>>
    /\ bciNotTouched

\* An interval callback of check i, whatever it draws.
CheckStep(i) ==
    \E moves \in CheckChange, r \in SignalTerm : progressInterval(i, moves, r)

BciNext ==
    \/ toggleConnection
    \/ /\ bciStatus.recordingTime < MaxRecordingTime
       /\ \E moves \in Fluctuation, signal \in SignalChange, drain, fill \in BOOLEAN :
             bciUpdate(moves, signal, drain, fill)

BciSpec == Init /\ [][BciNext]_vars

CheckNext ==
    \/ Len(impedanceChecks) < MaxChecks /\ runImpedanceCheck
    \/ \E i \in 1..MaxChecks : CheckStep(i)

CheckSpec == Init /\ [][CheckNext]_vars

\* The interval timer of a check keeps firing while it is armed.
CheckLiveSpec == CheckSpec /\ \A i \in 1..MaxChecks : WF_vars(CheckStep(i))

---------------------------------------------------------------------------
(* The movement decoder: actions *)

decoderNotTouched ==
    /\ delivery' = << >>
    /\ fired' = NoAction
    /\ UNCHANGED <<engineVars, procVars, linkVars, bciVars, listeners, page>>

Call(name, argument) == [type |-> name, class |-> argument, confidence |-> 0]

\* decoderVisualization.addDecodedPosition, called from outside the module.
addDecodedPosition(supplied) ==
    /\ currentDecoderData' = Inserted(currentDecoderData, supplied)
    /\ UNCHANGED decoderPanel
    /\ event' = Call("addDecodedPosition", supplied)
    /\ decoderNotTouched

\* The callback of startDemoUpdates, every 500 ms.
demoTick(refresh, r) ==
    /\ currentDecoderData' = DemoTicked(currentDecoderData, refresh, r)
    /\ UNCHANGED decoderPanel
    /\ event' = Call("demoTick", "")
    /\ decoderNotTouched

\* decoderVisualization.setTrajectoryType(type), called from outside.
setTrajectoryTypeCall(type) ==
    /\ currentDecoderData' = setTrajectoryType(currentDecoderData, type)
    /\ decoderPanel' = [decoderPanel EXCEPT !.changes = @ + 1]
    /\ event' = Call("setTrajectoryType", type)
    /\ decoderNotTouched

\* decoderVisualization.updateDecoderData({trajectoryType: type}), called
\* from outside.
updateDecoderDataCall(type) ==
    /\ currentDecoderData' =
          updateDecoderData(currentDecoderData,
              [accuracy |-> currentDecoderData.accuracy,
               metrics |-> currentDecoderData.metrics, trajectoryType |-> type])
    /\ decoderPanel' = [decoderPanel EXCEPT !.changes = @ + 1]
    /\ event' = Call("updateDecoderData", type)
    /\ decoderNotTouched

\* updateDecoderModelMetrics(modelId, trajectoryType) on the data.
updateDecoderModelMetrics(data, modelId, trajectoryType) ==
    LET new == Recomputed(modelId, trajectoryType)
    IN  updateDecoderData(data, [accuracy |-> new.accuracy, metrics |-> new.metrics,
                                 trajectoryType |-> trajectoryType])

\* The user picks a trajectory type: the listener of the decoder and the one
\* of dashboard.js both call setTrajectoryType, and the latter then
\* recomputes the metrics.
selectTrajectoryType(type) ==
    /\ currentDecoderData' =
          updateDecoderModelMetrics(
              setTrajectoryType(setTrajectoryType(currentDecoderData, type), type),
              decoderPanel.model, type)
    /\ decoderPanel' = [decoderPanel EXCEPT !.type = type,
                                            !.recomputations = @ + 1,
                                            !.changes = @ + 1]
    /\ event' = Call("trajectory-type-selector", type)
    /\ decoderNotTouched

\* The user picks a decoder model: dashboard.js recomputes the metrics for
\* the model and the type the other selector shows.
selectDecoderModel(modelId) ==
    /\ currentDecoderData' =
          updateDecoderModelMetrics(currentDecoderData, modelId, decoderPanel.type)
    /\ decoderPanel' = [decoderPanel EXCEPT !.model = modelId,
                                            !.recomputations = @ + 1,
                                            !.changes = @ + 1]
    /\ event' = Call("decoder-model-select", modelId)
    /\ decoderNotTouched

\* The buffer under insertions and regenerations.
BufferNext ==
    \/ /\ currentDecoderData.pushed < MaxInsertions
       /\ \/ \E supplied \in Supplied : addDecodedPosition(supplied)
          \/ \E refresh \in BOOLEAN : demoTick(refresh, TickTerm)
    \/ /\ decoderPanel.changes < MaxRegenerations
       /\ \E type \in TrajectoryTypes \cup {"spiral"} : setTrajectoryTypeCall(type)

BufferSpec == Init /\ [][BufferNext]_vars

\* The decoder under the changes of its selectors and the calls of its
\* interface, with a few ticks of the demo after each.
DecoderNext ==
    \/ /\ currentDecoderData.pushed < GeneratorSteps + MaxDemoTicks
       /\ \/ \E supplied \in Supplied : addDecodedPosition(supplied)
          \/ \E refresh \in BOOLEAN : demoTick(refresh, TickTerm)
    \/ /\ decoderPanel.changes < MaxChanges
       /\ \/ \E type \in TrajectoryTypes \cup {"spiral"} : setTrajectoryTypeCall(type)
          \/ \E type \in TrajectoryTypes : updateDecoderDataCall(type)
          \/ \E type \in TrajectoryTypes : selectTrajectoryType(type)
          \/ \E modelId \in DecoderModels : selectDecoderModel(modelId)

DecoderSpec == Init /\ [][DecoderNext]_vars

---------------------------------------------------------------------------
(* Signal Classifier: specifications *)

ProcNext ==
    \/ startProcessor
    \/ stopProcessor
    \/ resetProcessor
    \/ /\ published.features < MaxPublished
       /\ \E id \in intervals, change \in BandChange : processorTick(id, change, {}, NoRegeneration, 0)

ProcSpec == ProcInit /\ [][ProcNext]_vars

\* The processor once started: MaxTicks ticks, whose listeners may throw.  The
\* band powers, which no decision of the tick reads, rise at every tick.
TickNext ==
    \/ startProcessor
    \/ /\ published.features < MaxTicks
       /\ \E id \in intervals, faulty \in Faults : processorTick(id, TickBandChange, faulty, NoRegeneration, 0)

TickSpec == ProcInit /\ [][TickNext]_vars

\* The attention weights: generated with the module, at a change of the
\* attention-heads selector and at the ticks that regenerate them.
AttentionInit ==
    /\ neuroLLaMA = InitNeuroLLaMA
    /\ ACTION_VERBS = [a \in ActionNames |-> InitVerb]
    /\ now = Epoch
    /\ panelTimers = {}
    /\ processorActive = FALSE
    /\ processorIntervalId = 0
    /\ intervals = {}
    /\ \E draws \in HeadDraws(InitialHeads) :
          processorData = [IdleData(50) EXCEPT !.attentionWeights = draws]
    /\ decodedOutputHistory = InitHistory
    /\ classToMovementMap = InitMovementMap
    /\ movementParameters = NoMovement
    /\ listeners = PageListeners
    /\ delivery = << >>
    /\ page = LoadedPage
    /\ handshakes = << >>
    /\ connectionStatus = [neuralConnected |-> FALSE]
    /\ bciStatus = InitBciStatus
    /\ impedanceChecks = << >>
    /\ currentDecoderData = InitDecoderData
    /\ decoderPanel = InitDecoderPanel
    /\ published = [classification |-> 0, features |-> 0, ticks |-> 0]
    /\ halted = TRUE
    /\ event = NoEvent
    /\ fired = NoAction

AttentionNext ==
    \/ startProcessor
    \/ /\ published.ticks < MaxAttentionTicks
       /\ \E id \in intervals, attention \in Regenerations \cup {NoRegeneration},
             layer \in Layers :
             processorTick(id, TickBandChange, {}, attention, layer)
    \/ \E draws \in Regenerations : changeAttentionHeads(draws)

AttentionSpec == AttentionInit /\ [][AttentionNext]_vars

---------------------------------------------------------------------------
(* Properties *)

\* TRUE of a step in which handleNeuralClassification ran on an enabled engine.
ClassificationProcessed == neuroLLaMA.active /\ event'.type = "classification"

\* C1: between handlers, each of the five accumulators has active = TRUE
\* exactly when its confidence is greater than 0.6.
ActiveIsDerived ==
    \A a \in ActionNames :
        ACTION_VERBS[a].active <=> (ACTION_VERBS[a].confidence * 10 > 6 * Scale)

\* An accumulator sits on 0.6 exactly and is inactive while another is active.
ActiveBoundaryReached ==
    /\ ACTION_VERBS["navigate"].confidence * 10 = 6 * Scale
    /\ ~ACTION_VERBS["navigate"].active
    /\ ACTION_VERBS["select"].active

\* C2 (as claimed): a qualifying event that selects an action triggered before
\* fires it exactly when at least 2000 ms have passed since that trigger.
DebounceAtLeastTwoSeconds ==
    [][(ClassificationProcessed /\ event'.confidence >= 75) =>
            LET a == ActionToTrigger(ACTION_VERBS') IN
            (a # NoAction /\ ACTION_VERBS[a].lastTriggered # 0) =>
               (fired' = a <=> now - ACTION_VERBS[a].lastTriggered >= 2000)]_vars

\* C3: an enabled engine decays every accumulator by 0.9 and then raises the
\* routed ones to the incoming confidence (0.8 of it for Tongue's modify); on a
\* non-Rest event the others end at 0.9 of their value.
DecayThenBoost ==
    [][ClassificationProcessed =>
            LET c          == event'.class
                Decayed(a) == (ACTION_VERBS[a].confidence \div 10) * 9
                New(a)     == ACTION_VERBS'[a].confidence
                incoming   == event'.confidence * (Scale \div 100)
                Routed     == CASE c \in {"Left Hand", "Right Hand"} -> {"navigate"}
                                [] c = "Feet" -> {"modify"}
                                [] c = "Tongue" -> {"select", "modify"}
                                [] OTHER -> {}
            IN  /\ c # "Rest" =>
                     \A a \in ActionNames \ Routed : New(a) = Decayed(a)
                /\ c \in {"Left Hand", "Right Hand"} =>
                     New("navigate") = Max(Decayed("navigate"), incoming)
                /\ c = "Feet" =>
                     New("modify") = Max(Decayed("modify"), incoming)
                /\ c = "Tongue" =>
                     /\ New("select") = Max(Decayed("select"), incoming)
                     /\ New("modify") = Max(Decayed("modify"), (incoming \div 10) * 8)
                /\ \A a \in Routed : New(a) >= Decayed(a)]_vars

\* Tongue at 0.9 and then Right Hand at 0.9: navigate boosted, the others decayed.
DecayedAndBoosted ==
    /\ ACTION_VERBS["navigate"].confidence * 100 = 90 * Scale
    /\ ACTION_VERBS["select"].confidence * 100 = 81 * Scale
    /\ ACTION_VERBS["modify"].confidence * 1000 = 648 * Scale

\* C4: a Rest event processed by an enabled engine leaves every accumulator
\* at no more than 0.9 x 0.8 of its confidence, and raises none.
RestOnlyDecays ==
    [][(ClassificationProcessed /\ event'.class = "Rest") =>
            \A a \in ActionNames :
               /\ ACTION_VERBS'[a].confidence
                     <= (ACTION_VERBS[a].confidence \div 100) * 72
               /\ ACTION_VERBS'[a].confidence <= ACTION_VERBS[a].confidence]_vars

\* navigate at 0.9 x 0.72: a Rest event has decayed a boosted accumulator.
RestApplied ==
    /\ neuroLLaMA.active
    /\ event.type = "classification" /\ event.class = "Rest"
    /\ ACTION_VERBS["navigate"].confidence * 1000 = 648 * Scale

\* C5: a Right Hand event of confidence c processed by an enabled engine
\* leaves navigate.confidence >= c, navigate.direction = forward, and
\* navigate.active = TRUE when c > 0.6.
RightHandRaisesNavigate ==
    [][(ClassificationProcessed /\ event'.class = "Right Hand") =>
            /\ ACTION_VERBS'["navigate"].confidence
                  >= event'.confidence * (Scale \div 100)
            /\ ACTION_VERBS'["navigate"].direction = "forward"
            /\ event'.confidence > 60 => ACTION_VERBS'["navigate"].active]_vars

\* Right Hand at 0.9 has been processed after other events.
RightHandProcessed ==
    /\ neuroLLaMA.active
    /\ event = [type |-> "classification", class |-> "Right Hand", confidence |-> 90]
    /\ ACTION_VERBS["navigate"].confidence * 100 = 90 * Scale
    /\ ACTION_VERBS["navigate"].direction = "forward"
    /\ ACTION_VERBS["navigate"].active
    /\ ACTION_VERBS["modify"].confidence > 0

\* C6: a triggered accumulator has confidence >= 0.75 and none is higher; the
\* trigger sets triggered and lastTriggered = now for it alone; an event of
\* confidence below 0.75 triggers nothing.
TriggerIsJustified ==
    /\ [][fired' # NoAction =>
            /\ ACTION_VERBS'[fired'].confidence * 100 >= 75 * Scale
            /\ \A b \in ActionNames :
                  ACTION_VERBS'[b].confidence <= ACTION_VERBS'[fired'].confidence
            /\ ACTION_VERBS'[fired'].triggered
            /\ ACTION_VERBS'[fired'].lastTriggered = now'
            /\ \A b \in ActionNames \ {fired'} :
                  /\ ACTION_VERBS'[b].triggered = ACTION_VERBS[b].triggered
                  /\ ACTION_VERBS'[b].lastTriggered = ACTION_VERBS[b].lastTriggered]_vars
    /\ [][(event'.type = "classification" /\ event'.confidence < 75) =>
            fired' = NoAction]_vars

\* modify is triggered after the clock has advanced, as the higher of two
\* accumulators above the threshold.
HighestTriggered ==
    /\ fired = "modify"
    /\ ACTION_VERBS["modify"].lastTriggered > Epoch
    /\ ACTION_VERBS["navigate"].confidence * 100 >= 75 * Scale
    /\ ACTION_VERBS["navigate"].confidence < ACTION_VERBS["modify"].confidence

\* C7: a disabled engine leaves every accumulator as it is and triggers nothing
\* when either event is delivered; the disabling toggle sets every accumulator
\* to confidence 0, active FALSE, triggered FALSE.
DisabledEngineIgnoresEvents ==
    /\ [][(~neuroLLaMA.active /\ event'.type \in {"classification", "features"}) =>
            (ACTION_VERBS' = ACTION_VERBS /\ fired' = NoAction)]_vars
    /\ [][(neuroLLaMA.active /\ ~neuroLLaMA'.active) =>
            \A a \in ActionNames :
                  /\ ACTION_VERBS'[a].confidence = 0
                  /\ ~ACTION_VERBS'[a].active
                  /\ ~ACTION_VERBS'[a].triggered]_vars

\* A qualifying event has been delivered to an engine that was disabled after
\* navigate was triggered: the toggle has reset it and the event has changed nothing.
DisabledAfterTrigger ==
    /\ ~neuroLLaMA.active
    /\ event.type = "classification" /\ event.confidence >= 75
    /\ ACTION_VERBS["navigate"].lastTriggered # 0
    /\ ACTION_VERBS["navigate"].direction = "forward"
    /\ \A a \in ActionNames :
          ACTION_VERBS[a].confidence = 0 /\ ~ACTION_VERBS[a].triggered

\* C8: every accumulator's confidence is within [0, 1].
ConfidenceInUnitInterval ==
    \A a \in ActionNames :
        ACTION_VERBS[a].confidence >= 0 /\ ACTION_VERBS[a].confidence <= Scale

\* navigate holds 1 while modify holds a value strictly inside the interval.
FullConfidenceReached ==
    /\ ACTION_VERBS["navigate"].confidence = Scale
    /\ ACTION_VERBS["modify"].confidence > 0
    /\ ACTION_VERBS["modify"].confidence < Scale

\* C9: exactly one tick timer is armed when the processor is Active and none
\* when it is Idle; start while Active arms nothing, stop while Idle changes
\* nothing; reset leaves the processor Idle with the default classification
\* and confidence.
ProcessorStateMachine ==
    /\ [](/\ processorActive => intervals = {processorIntervalId}
          /\ ~processorActive => intervals = {})
    /\ [][(processorActive /\ startProcessor) => intervals' = intervals]_vars
    /\ [][(~processorActive /\ stopProcessor) =>
            UNCHANGED <<processorActive, intervals, processorData, published>>]_vars
    /\ [][resetProcessor =>
            /\ ~processorActive'
            /\ intervals' = {}
            /\ processorData'.classificationResult = "Idle"
            /\ processorData'.confidence = 0]_vars

\* The processor runs on its second timer, after a stop and having ticked.
RestartedProcessor ==
    /\ processorActive
    /\ Cardinality(intervals) = 1
    /\ processorIntervalId = 2
    /\ published.features > 0

\* C10: from the return of stop() or reset() to the next start(), no event is
\* published and only reset() changes the processor's data.
NoActivityWhileHalted ==
    [][(halted /\ halted') =>
          /\ published' = published
          /\ processorData' = processorData \/ resetProcessor]_vars

\* The processor has been stopped after publishing, and not reset.
StoppedAfterPublishing ==
    /\ halted
    /\ ~processorActive
    /\ published.features > 0
    /\ processorData.classificationResult \in ClassLabels

\* C11 (as claimed): no point of the decoded-output history has time > 0, and
\* once a tick has run the last point has time = -updateInterval.
HistoryHoldsNoFuturePoint ==
    /\ \A i \in 1..Len(decodedOutputHistory) : decodedOutputHistory[i].time <= 0
    /\ published.features > 0 =>
          decodedOutputHistory[Len(decodedOutputHistory)].time = -UpdateInterval

\* C12 (as claimed): the movement parameters published by a tick are the unit
\* vector of the current class times the current confidence, and velocity is
\* the magnitude of that vector.
MovementIsUnitTimesConfidence ==
    [][published'.features > published.features =>
          LET c    == processorData'.classificationResult
              unit == IF c \in ClassLabels THEN InitMovementMap[c] ELSE Vec(0, 0)
              want == ScaleBy(unit, processorData'.confidence)
          IN  movementParameters' = [x |-> want.x, y |-> want.y,
                                     velocity |-> Magnitude(want), e |-> want.e]]_vars

\* The steps of a delivery d, from lo to hi, at which a listener of hs ended.
Ended(d, hs, lo, hi) ==
    {i \in lo..hi : /\ d[i].op \in {"exit", "throw"}
                    /\ \E j \in 1..Len(hs) : hs[j] = d[i].what}

\* The steps of a delivery d at which an event of the type is published.
Publications(d, type) ==
    {i \in 1..Len(d) : d[i].op = "publish" /\ d[i].what = type}

\* C13: in a tick that changes the classification, every listener of
\* processor:classification-updated has ended before processor:features-extracted
\* is published, and every listener of that event has ended when the tick returns.
DeliveryIsSynchronousAndOrdered ==
    [][published'.features > published.features =>
          LET d  == delivery'
              pc == Publications(d, CLASSIFICATION_UPDATED)
              pf == Publications(d, FEATURES_EXTRACTED)
          IN  /\ Cardinality(pf) = 1
              /\ \A f \in pf :
                    Cardinality(Ended(d, listeners[FEATURES_EXTRACTED], f, Len(d)))
                       = Len(listeners[FEATURES_EXTRACTED])
              /\ published'.classification > published.classification =>
                    /\ Cardinality(pc) = 1
                    /\ \A c \in pc, f \in pf :
                          /\ c < f
                          /\ Cardinality(Ended(d, listeners[CLASSIFICATION_UPDATED], c, f))
                                = Len(listeners[CLASSIFICATION_UPDATED])]_vars

\* A tick has published a new classification, which the glue has turned into
\* a movement request, and then the features, to four listeners each.
ClassificationThenFeaturesDelivered ==
    /\ Len(listeners[CLASSIFICATION_UPDATED]) = 4
    /\ Len(listeners[FEATURES_EXTRACTED]) = 4
    /\ Publications(delivery, CLASSIFICATION_UPDATED) # {}
    /\ Publications(delivery, "decoder:movement-request") # {}
    /\ Publications(delivery, FEATURES_EXTRACTED) # {}
    /\ \A i \in 1..Len(delivery) : delivery[i].op # "throw"

\* C14 (as claimed): initializeComponentIntegration runs once per page load.
GlueRunsOnce == page.gluePasses <= 1

\* C15 (as claimed): with the decoder and NeuroLLaMA scripts present and the
\* glue wired, a published classification causes one decoder:movement-request
\* when its class is Left Hand, Right Hand, Feet or Tongue and its confidence
\* exceeds 0.65, with the direction left, right, down, up, and none otherwise.
OneMovementRequestPerEvent ==
    [][(/\ event'.type = "classification"
        /\ {"decoder", "llama"} \subseteq page.scripts
        /\ page.gluePasses >= 1) =>
          LET requests == Publications(delivery', "decoder:movement-request")
              moves    == event'.class \in {"Left Hand", "Right Hand", "Feet", "Tongue"}
                             /\ event'.confidence > 65
          IN  /\ Cardinality(requests) = (IF moves THEN 1 ELSE 0)
              /\ \A i \in requests :
                    delivery'[i].detail.direction =
                       (CASE event'.class = "Left Hand"  -> "left"
                          [] event'.class = "Right Hand" -> "right"
                          [] event'.class = "Feet"       -> "down"
                          [] OTHER                       -> "up")]_vars

\* C16 (as claimed): with the scripts of the device-status monitor and of the
\* signal classifier loaded and the glue wired, a bci:status-updated event is
\* forwarded as a processor:bci-status event.
BciStatusIsForwarded ==
    [][(/\ event'.type = "bci-status"
        /\ {"bci", "processor"} \subseteq page.scripts
        /\ page.gluePasses >= 1) =>
          Publications(delivery', "processor:bci-status") # {}]_vars

\* The listeners of the event that run after step i of a delivery d, where
\* the listener at position k of hs has thrown.
EnteredAfter(d, hs, k, i) ==
    {j \in (i + 1)..Len(d) :
        /\ d[j].op = "enter"
        /\ \E m \in (k + 1)..Len(hs) : hs[m] = d[j].what}

\* C18: when a listener throws during a delivery, every listener registered
\* after it for the same event is still entered, and the tick goes on: the
\* history is updated and the features are published after the exception.
HandlerFaultIsIsolated ==
    [][\A i \in 1..Len(delivery') : delivery'[i].op = "throw" =>
          /\ \E type \in Topics :
                LET hs == listeners[type] IN
                \E k \in 1..Len(hs) :
                    /\ hs[k] = delivery'[i].what
                    /\ Cardinality(EnteredAfter(delivery', hs, k, i)) = Len(hs) - k
          /\ delivery'[Len(delivery')] = Step("done", FEATURES_EXTRACTED,
                                             delivery'[Len(delivery')].detail)
          /\ published'.features = published.features + 1
          /\ decodedOutputHistory' = updateDecodedOutputHistory(decodedOutputHistory)
          /\ (delivery'[i].what = "handleProcessorClassification" =>
                \E f \in Publications(delivery', FEATURES_EXTRACTED) : f > i)]_vars

\* The decoder's listener of the classification has thrown, the two listeners
\* of the glue registered after it have run and the features were published.
FaultyListenerPassed ==
    \E i \in 1..Len(delivery) :
        /\ delivery[i].op = "throw"
        /\ delivery[i].what = "handleProcessorClassification"
        /\ \E j \in (i + 1)..Len(delivery) :
              delivery[j].op = "enter" /\ delivery[j].what = "glueClassification"
        /\ \E f \in Publications(delivery, FEATURES_EXTRACTED) : f > i

\* The listeners a module subscribes when it initialises.
Subscribed(m) ==
    LET own == CASE m = "processor" -> {"handleDecoderReady", "handleLLaMAReady",
                                        "handleLLaMAConnectionRequest",
                                        "handleLLaMAActivation"}
                 [] m = "llama"     -> {"handleNeuralFeatures",
                                        "handleNeuralClassification"}
                 [] m = "decoder"   -> {"handleProcessorReady", "handleProcessorFeatures",
                                        "handleProcessorClassification"}
                 [] OTHER           -> {}
    IN  \E type \in Topics : \E i \in 1..Len(listeners[type]) :
            listeners[type][i] \in own

\* C19 (as claimed): a module whose script is loaded on a page without its
\* DOM targets is skipped without an exception: it arms no timer, subscribes
\* to nothing and announces nothing.
MissingCollaboratorIsSkipped ==
    \A m \in page.scripts \ page.dom :
        /\ page.inits[m] \in {"pending", "skipped"}
        /\ m \notin page.armed
        /\ ~Subscribed(m)
        /\ (m = "llama" => "neuro-llama:ready" \notin page.announced)

\* C20 (as claimed): in every state, the initial one included, the status of
\* each electrode read through getStatus() is good below 15 kOhm, moderate
\* from 15 to below 20 and poor from 20.
StatusMatchesImpedance ==
    \A e \in ElectrodeNames :
        LET electrode == getStatus(bciStatus).electrodes[e] IN
        electrode.status = (IF electrode.impedance < 150 THEN "good"
                            ELSE IF electrode.impedance < 200 THEN "moderate"
                            ELSE "poor")

\* C17: a handshake that receives no response within 2000 ms is settled by its
\* timer as a timeout, with neuralConnected FALSE; the outcome of a handshake
\* is applied once and no later response or timer changes it.
HandshakeSettlesOnce ==
    /\ [](\A i \in 1..Len(handshakes) :
            /\ handshakes[i].applied = (IF handshakes[i].state = "pending" THEN 0 ELSE 1)
            /\ handshakes[i].state = "pending" => now <= handshakes[i].due
            /\ handshakes[i].state = "timeout" => now >= handshakes[i].due)
    /\ [][\A i \in 1..Len(handshakes) :
            /\ handshakes[i].state # "pending" =>
                  /\ handshakes'[i].state = handshakes[i].state
                  /\ handshakes'[i].applied = handshakes[i].applied
            /\ (handshakes[i].state = "pending" /\ HandshakeTimeout(i)) =>
                  /\ handshakes'[i].state = "timeout"
                  /\ ~connectionStatus'.neuralConnected]_vars

\* A handshake has timed out, and a response published after the timeout has
\* been received by its listener.
LateResponseIgnored ==
    \E i \in 1..Len(handshakes) :
        /\ handshakes[i].state = "timeout"
        /\ ~handshakes[i].listening
        /\ event.type = "connection-response"

\* The impedance check i has measured the electrodes in this step.
Completes(i) ==
    /\ i \in 1..Len(impedanceChecks)
    /\ impedanceChecks'[i].applied > impedanceChecks[i].applied

\* C21: when an impedance check has run to completion, the impedance of
\* every electrode is within 5 and 40 kOhm and its status is the one the
\* thresholds give it: good below 15, moderate below 20, poor otherwise.
CheckLeavesElectrodesConsistent ==
    [][(\E i \in 1..MaxChecks : Completes(i)) =>
          \A e \in ElectrodeNames :
              LET electrode == bciStatus'.electrodes[e] IN
              /\ electrode.impedance >= 50
              /\ electrode.impedance <= 400
              /\ electrode.status = (IF electrode.impedance < 150 THEN "good"
                                     ELSE IF electrode.impedance < 200 THEN "moderate"
                                     ELSE "poor")]_vars

\* A check has completed; it has held Cz at 5 kOhm, made F3 good and T5 poor.
CheckCompletedAtTheFloor ==
    /\ \E i \in 1..Len(impedanceChecks) : impedanceChecks[i].applied = 1
    /\ bciStatus.electrodes["Cz"].impedance = 50
    /\ bciStatus.electrodes["F3"] = Electrode(112, 900, "good")
    /\ bciStatus.electrodes["T5"].status = "poor"

\* C22: every impedance check that is started completes: its progress rises
\* from 0 to 100 by steps of 5, it measures the electrodes once, at 100, and
\* from then on its timer is disarmed and the check never changes again.
CheckRunsToCompletion ==
    /\ [](\A i \in 1..Len(impedanceChecks) :
            LET check == impedanceChecks[i] IN
            /\ check.progress \in {ProgressStep * n : n \in 0..(ProgressEnd \div ProgressStep)}
            /\ check.armed <=> check.progress < ProgressEnd
            /\ check.applied = (IF check.progress = ProgressEnd THEN 1 ELSE 0))
    /\ [][\A i \in 1..Len(impedanceChecks) :
            /\ ~impedanceChecks[i].armed => impedanceChecks'[i] = impedanceChecks[i]
            /\ impedanceChecks'[i].progress \in
                  {impedanceChecks[i].progress, impedanceChecks[i].progress + ProgressStep}]_vars
    /\ \A i \in 1..MaxChecks :
          (Len(impedanceChecks) >= i) ~>
              (/\ Len(impedanceChecks) >= i
               /\ impedanceChecks[i] = [progress |-> ProgressEnd, armed |-> FALSE,
                                        applied |-> 1])

\* The first check has completed and released its timer while the second
\* one is half way.
CheckCompletedBesideAnother ==
    /\ Len(impedanceChecks) = 2
    /\ impedanceChecks[1] = [progress |-> 100, armed |-> FALSE, applied |-> 1]
    /\ impedanceChecks[2] = [progress |-> 50, armed |-> TRUE, applied |-> 0]

\* C23: while the device is disconnected the ticks change nothing of the
\* status; toggling changes the connection alone; and each tick of a
\* connected device adds exactly 1 to the recording time, which therefore
\* continues from the value it had while disconnected.
DisconnectedDeviceIsFrozen ==
    [][/\ (~bciStatus.connected /\ ~bciStatus'.connected) => bciStatus' = bciStatus
       /\ bciStatus'.connected # bciStatus.connected =>
             bciStatus' = [bciStatus EXCEPT !.connected = ~@]
       /\ (bciStatus.connected /\ bciStatus'.connected /\ bciStatus' # bciStatus) =>
             bciStatus'.recordingTime = bciStatus.recordingTime + 1]_vars

\* The device is disconnected after two ticks, which have moved the battery,
\* the storage and an electrode.
DisconnectedAfterTicks ==
    /\ ~bciStatus.connected
    /\ bciStatus.recordingTime = 2
    /\ bciStatus.batteryLevel = 85
    /\ bciStatus.storageUsed = 44
    /\ bciStatus.electrodes["P3"].status = "moderate"

\* C24: after any sequence of insertions and regenerations the trajectory
\* holds at most 100 points, which are the points pushed last, in the order
\* of their insertion; once 150 points were pushed in a row it holds 100.
BufferHoldsTheLastHundred ==
    LET points == currentDecoderData.points
        pushed == currentDecoderData.pushed
    IN  /\ Len(points) <= 100
        /\ Len(points) = (IF pushed < 100 THEN pushed ELSE 100)
        /\ \A i \in 1..Len(points) : points[i].n = pushed - Len(points) + i
        /\ pushed >= 150 => Len(points) = 100

\* After a regeneration for the reaching task, 150 points have been pushed:
\* the 48 of the generator are gone and the last 100 added are held.
BufferFullAfterRegeneration ==
    /\ currentDecoderData.regenerations = 2
    /\ currentDecoderData.trajectoryType = "reaching"
    /\ currentDecoderData.pushed = 150
    /\ Len(currentDecoderData.points) = 100
    /\ currentDecoderData.points[1] = Point("addDecodedPosition", 51, 0)

\* C25: when setTrajectoryType or the selector switches the trajectory from
\* circular to reaching, the buffer is regenerated whole: it holds no point
\* of the circular generator nor any point added since, but one pass over
\* the 8 targets, 6 points each (steps / 8 rounded down), 48 in all.
SwitchToReachingRegenerates ==
    [][(/\ event'.type \in {"setTrajectoryType", "trajectory-type-selector"}
        /\ event'.class = "reaching"
        /\ currentDecoderData.trajectoryType = "circular") =>
          LET points == currentDecoderData'.points IN
          /\ currentDecoderData'.trajectoryType = "reaching"
          /\ Len(points) = 8 * (50 \div 8)
          /\ \A i \in 1..Len(points) :
                /\ points[i].by = "reaching"
                /\ points[i].target = ((i - 1) \div 6) + 1]_vars

\* The first change of the page was a switch from the circle to the
\* reaching task by the selector, whose two listeners have both regenerated
\* the buffer; 48 points are held.
SwitchedFromCircleToReaching ==
    /\ decoderPanel.changes = 1
    /\ event.type = "trajectory-type-selector"
    /\ event.class = "reaching"
    /\ Len(currentDecoderData.points) = 48
    /\ currentDecoderData.regenerations = 3

\* C26 (as claimed): every change of the decoder model, every change of the
\* trajectory type, and every updateDecoderData whose trajectoryType differs
\* from the current one, regenerates the buffer with the generator of the
\* type then selected.
EveryChangeRegenerates ==
    [][(\/ event'.type \in {"decoder-model-select", "trajectory-type-selector",
                            "setTrajectoryType"}
        \/ /\ event'.type = "updateDecoderData"
           /\ event'.class # currentDecoderData.trajectoryType) =>
          /\ currentDecoderData'.regenerations > currentDecoderData.regenerations
          /\ currentDecoderData'.points = Generated(currentDecoderData'.trajectoryType)
          /\ currentDecoderData'.pushed = Len(currentDecoderData'.points)]_vars

\* C27: for each of the three models and each of the three trajectory
\* types, the recomputation leaves accuracy within 0.5 and 0.98, mse at 0.01
\* or more, r2 within 0.4 and 0.98 and correlation within 0.5 and 0.99.
RecomputedMetricsInRange ==
    /\ [](\A modelId \in DecoderModels, type \in TrajectoryTypes :
            LET new == Recomputed(modelId, type) IN
            /\ new.accuracy >= 500000 /\ new.accuracy <= 980000
            /\ new.metrics.mse >= 10000
            /\ new.metrics.r2 >= 400000 /\ new.metrics.r2 <= 980000
            /\ new.metrics.correlation >= 500000 /\ new.metrics.correlation <= 990000)
    /\ [][decoderPanel'.recomputations > decoderPanel.recomputations =>
            LET new == currentDecoderData' IN
            /\ new.accuracy >= 500000 /\ new.accuracy <= 980000
            /\ new.metrics.mse >= 10000
            /\ new.metrics.r2 >= 400000 /\ new.metrics.r2 <= 980000
            /\ new.metrics.correlation >= 500000 /\ new.metrics.correlation <= 990000]_vars

\* The metrics have been recomputed for model3 and the reaching task, the
\* pair with the highest accuracy, 0.96768, and correlation, 0.98175.
BestPairRecomputed ==
    /\ decoderPanel.recomputations > 0
    /\ decoderPanel.model = "model3"
    /\ decoderPanel.type = "reaching"
    /\ currentDecoderData.accuracy = 967680
    /\ currentDecoderData.metrics.mse = 15925
    /\ currentDecoderData.metrics.r2 = 882000
    /\ currentDecoderData.metrics.correlation = 981750


\* The distance of the sum of a normalised row from 1, in units of 1e-12;
\* a distance of more than SequenceLength millionths is reported as Million.
Deviation(row) ==
    LET hi == [c \in 1..SequenceLength |-> row[c].hi]
        lo == [c \in 1..SequenceLength |-> row[c].lo]
        dh == Million - RowSum(hi, SequenceLength)
        d  == dh * Million - RowSum(lo, SequenceLength)
    IN  IF dh > SequenceLength \/ dh < -SequenceLength THEN Million
        ELSE IF d >= 0 THEN d ELSE -d

\* C28: every row of every head's matrix that generateRandomAttentionMatrix
\* produced (with the module, at a change of the head count, at a tick) sums
\* to 1.0 within 1e-9, which is 1000 units of 1e-12.
AttentionRowsSumToOne ==
    LET weights == generateRandomAttentionMatrix(processorData.attentionWeights)
    IN  \A h \in 1..Len(weights) : \A r \in 1..SequenceLength :
           Deviation(weights[h][r]) <= 1000

\* A tick has regenerated the weights of two heads with uneven draws, whose
\* quotients do not add up to 1 exactly.
RoundedRowsRegenerated ==
    /\ published.features > 0
    /\ Len(processorData.attentionWeights) = 2
    /\ processorData.attentionWeights[2] = "ramp"
    /\ Deviation(generateRandomAttentionMatrix(processorData.attentionWeights)[2][1]) > 0


\* TRUE of a step that changes the confidence or the active flag of an action.
AccumulatorsChange ==
    \E a \in ActionNames :
       \/ ACTION_VERBS'[a].confidence # ACTION_VERBS[a].confidence
       \/ ACTION_VERBS'[a].active # ACTION_VERBS[a].active

\* C29: the engine reacts only to ClassificationEvents: while it is enabled
\* the delivery of a FeaturesExtracted event leaves the confidence and the
\* active flag of every action unchanged, and confidences change only when a
\* ClassificationEvent is processed or the engine is toggled.
OnlyClassificationsMoveAccumulators ==
    [][/\ (neuroLLaMA.active /\ event'.type = "features") => ~AccumulatorsChange
       /\ AccumulatorsChange =>
             \/ ClassificationProcessed
             \/ neuroLLaMA'.active # neuroLLaMA.active]_vars


\* C30: a connection request published while the classifier is Active is
\* answered 'connected' and the handshake ends with neuralConnected = TRUE;
\* one published while it is Idle is answered 'standby' and the handshake ends
\* with neuralConnected = FALSE.
ReplyFollowsClassifier ==
    [][Len(handshakes') > Len(handshakes) =>
          IF processorActive
          THEN /\ ProcessorReply = "connected"
               /\ handshakes'[Len(handshakes')].state = "connected"
               /\ connectionStatus'.neuralConnected
          ELSE /\ ProcessorReply = "standby"
               /\ handshakes'[Len(handshakes')].state = "rejected"
               /\ ~connectionStatus'.neuralConnected]_vars


\* TRUE of a delivery in which the listener ran.
Received(d, handler) ==
    \E i \in 1..Len(d) : d[i].op = "enter" /\ d[i].what = handler

\* C31: in either order of initialisation of the classifier and the decoder,
\* decoder:ready reaches handleDecoderReady and processor:decoder-ready
\* reaches handleProcessorReady.
BothReadyEventsReceived ==
    [][(/\ page.phase = "loading"
        /\ page'.phase = "ready"
        /\ page'.inits["processor"] = "done"
        /\ page'.inits["decoder"] = "done")
          => /\ Received(delivery', "handleDecoderReady")
             /\ Received(delivery', "handleProcessorReady")]_vars


\* C32: a ClassificationEvent of class Rest triggers no action, whatever its
\* confidence and whatever the accumulators were.
RestNeverTriggers ==
    [][(event'.type = "classification" /\ event'.class = "Rest")
          => fired' = NoAction]_vars

\* A Rest event at or above the threshold has been processed by the enabled
\* engine with an accumulator that stood at 1 and whose debounce window had
\* passed: it is left at 0.72 and nothing is triggered.
RestProcessedAtFullConfidence ==
    /\ neuroLLaMA.active
    /\ event.type = "classification"
    /\ event.class = "Rest"
    /\ event.confidence >= Threshold
    /\ \E a \in ActionNames :
          /\ ACTION_VERBS[a].confidence = Conf(72)
          /\ now - ACTION_VERBS[a].lastTriggered > DebounceMs
    /\ fired = NoAction


\* C33: the create and delete accumulators have confidence 0 in every
\* reachable state, and are never active nor triggered.
CreateAndDeleteStayIdle ==
    \A a \in {"create", "delete"} :
        /\ ACTION_VERBS[a].confidence = 0
        /\ ~ACTION_VERBS[a].active
        /\ ~ACTION_VERBS[a].triggered
        /\ fired # a

\* The three other accumulators have been raised and one of them has been
\* triggered.
OtherAccumulatorsRaised ==
    /\ neuroLLaMA.active
    /\ \A a \in {"navigate", "select", "modify"} : ACTION_VERBS[a].confidence > 0
    /\ fired \in {"navigate", "select", "modify"}
    /\ \A a \in {"create", "delete"} : ACTION_VERBS[a].confidence = 0


\* C34: whenever trajectoryType is reaching the list of targets is defined
\* (the 8 targets the generator of the reaching task sets), so that no tick
\* of the reaching task reads a missing target.
ReachingHasTargets ==
    currentDecoderData.trajectoryType = "reaching" => currentDecoderData.targets


\* C35: whenever a tick regenerates the attention weights, the layer index
\* with which it refreshes the heatmap is below the number of heads, so that
\* the tick goes on to publish the features.
HeatmapLayerIsAHead ==
    [][published'.ticks > published.ticks
          => published'.features > published.features]_vars


\* C36: whenever an impedance check is in progress the connection button is
\* disabled, also when a check was started while an earlier one was running;
\* the button is enabled again only once no check remains in progress.
ButtonDisabledDuringChecks ==
    (\E i \in 1..Len(impedanceChecks) : impedanceChecks[i].armed)
        => page.connectDisabled


\* C37: in every state reached by sending prompts, typing responses out and
\* clearing the conversation or its last exchange in any order, there are
\* at most as many stored responses as stored prompts.
ResponsesWithinPrompts ==
    Len(neuroLLaMA.responseHistory) <= Len(neuroLLaMA.promptHistory)


\* C38: after any number of processor ticks every entry of the
\* class-to-movement lookup table is still the unit vector it was declared
\* with: extracting features leaves the table alone.
MovementMapIsNeverWritten == classToMovementMap = InitMovementMap


\* C39: in every state reached by calls of addDecodedPosition, with or
\* without velocities, calls of setTrajectoryType and ticks of the demo, the
\* arrays actual, predicted, timestamps, velocities.actual and
\* velocities.predicted hold the same number of entries.
FiveArraysOfOneLength ==
    LET d == currentDecoderData IN
    /\ Len(d.predicted) = Len(d.points)
    /\ Len(d.timestamps) = Len(d.points)
    /\ Len(d.velocities.actual) = Len(d.points)
    /\ Len(d.velocities.predicted) = Len(d.points)

\* A point was added without velocities to a full buffer, after a
\* regeneration, and the oldest entries were shifted out.
ShiftedWithoutVelocities ==
    /\ event = Call("addDecodedPosition", "none")
    /\ currentDecoderData.regenerations > 1
    /\ currentDecoderData.pushed > BufferLimit
    /\ Len(currentDecoderData.velocities.predicted) = BufferLimit

===========================================================================
